---- MODULE Spec2Model ----
(***************************************************************************)
(* Model of the cccs configuration store (src-tauri/src/config_service.rs):*)
(* profile scan, activation status, content caches and the atomic profile  *)
(* switch with backup, rollback and backup pruning; and of the file        *)
(* monitor (src-tauri/src/monitor_service.rs): watch list, fingerprint     *)
(* cache, the poll tasks and the forced scan.                              *)
(***************************************************************************)
EXTENDS Integers, Sequences, FiniteSets, TLC

(***************************************************************************)
(* Bounds of the model.                                                    *)
(***************************************************************************)
MaxNow == 1          \* last clock value of the store specification
MaxNowBackups == 5   \* last clock value of the backup specification
MaxNowScan == 2      \* last clock value of the scan specification
MaxNowMonitor == 1   \* last clock value of the monitor specification
MaxTasks == 2        \* calls of start_monitoring
MaxPaths == 52       \* regular files of the watch-list specification
MaxNowCache == 61    \* last second of the clock of the cache specification

(***************************************************************************)
(* JSON values (serde_json::Value): strings, arrays and objects.  An       *)
(* object is a map from keys to values; the map keeps one value per key.   *)
(***************************************************************************)
NoFields == [k \in {} |-> ""]

Str(s) == [kind |-> "string", str |-> s, fields |-> NoFields]

Arr == [kind |-> "array", str |-> "", fields |-> NoFields]

Obj(f) == [kind |-> "object", str |-> "", fields |-> f]

is_object(v) == v.kind = "object"

\* BTreeMap iteration order of the keys used by the model.
KeyOrder == <<"model", "theme">>

Keys == {KeyOrder[i] : i \in 1..Len(KeyOrder)}

(***************************************************************************)
(* File contents.  A text is garbage (not JSON), a JSON array, or a JSON   *)
(* object written as a sequence of key/value members in the order and with *)
(* the repetitions the file has, in compact or pretty-printed layout.      *)
(***************************************************************************)
Garbage == [kind |-> "garbage", pairs |-> <<>>, pretty |-> FALSE]

ArrayText == [kind |-> "array", pairs |-> <<>>, pretty |-> FALSE]

\* Bytes that are not UTF-8: fs::read_to_string fails on them.
Binary == [kind |-> "binary", pairs |-> <<>>, pretty |-> FALSE]

ObjText(ps, pr) == [kind |-> "object", pairs |-> ps, pretty |-> pr]

Member(k, v) == [k |-> k, v |-> v]

\* Map::insert while parsing: a later member replaces an earlier one.
RECURSIVE InsertAll(_, _)
InsertAll(f, ps) ==
    IF ps = <<>> THEN f
    ELSE LET p == Head(ps)
             g == [k \in (DOMAIN f) \cup {p.k} |-> IF k = p.k THEN p.v ELSE f[k]]
         IN InsertAll(g, Tail(ps))

\* serde_json::from_str::<Value>
from_str(t) ==
    CASE t.kind = "garbage" -> [ok |-> FALSE, val |-> Arr]
      [] t.kind = "binary"  -> [ok |-> FALSE, val |-> Arr]
      [] t.kind = "array"   -> [ok |-> TRUE, val |-> Arr]
      [] OTHER              -> [ok |-> TRUE, val |-> Obj(InsertAll(NoFields, t.pairs))]

RECURSIVE MembersInOrder(_, _)
MembersInOrder(f, order) ==
    IF order = <<>> THEN <<>>
    ELSE IF Head(order) \in DOMAIN f
         THEN <<Member(Head(order), f[Head(order)])>> \o MembersInOrder(f, Tail(order))
         ELSE MembersInOrder(f, Tail(order))

\* serde_json::to_string_pretty: members in map order, pretty layout.
to_string_pretty(v) ==
    IF is_object(v) THEN ObjText(MembersInOrder(v.fields, KeyOrder), TRUE)
    ELSE [kind |-> "array", pairs |-> <<>>, pretty |-> TRUE]

(***************************************************************************)
(* Activation status (ProfileStatus).                                      *)
(***************************************************************************)
\* Map::remove
remove(f, field) == [k \in (DOMAIN f) \ {field} |-> f[k]]

\* Variant: the ignored field is removed from nested objects as well.
RECURSIVE remove_deep(_, _)
remove_deep(v, field) ==
    IF is_object(v)
    THEN Obj([k \in (DOMAIN v.fields) \ {field} |-> remove_deep(v.fields[k], field)])
    ELSE v

compare_json_ignoring_field_deep(json1, json2, ignore_field) ==
    remove_deep(json1, ignore_field) = remove_deep(json2, ignore_field)

compare_json_ignoring_field(json1, json2, ignore_field) ==
    IF is_object(json1) /\ is_object(json2)
    THEN remove(json1.fields, ignore_field) = remove(json2.fields, ignore_field)
    ELSE json1 = json2

\* file = [exists, content, mtime]: the live settings file as read by
\* fs::read_to_string.
get_detailed_profile_status(profile_content, file) ==
    IF ~file.exists \/ file.content.kind = "binary" THEN "Error"
    ELSE LET d == from_str(file.content)
             p == from_str(profile_content)
         IN IF ~d.ok THEN "Error"
            ELSE IF ~p.ok THEN "Error"
            ELSE IF p.val = d.val THEN "FullMatch"
            ELSE IF compare_json_ignoring_field(p.val, d.val, "model") THEN "PartialMatch"
            ELSE "NoMatch"

compare_configurations_optimized(profile_content, default_json) ==
    LET p == from_str(profile_content)
    IN IF p.ok THEN p.val = default_json ELSE FALSE


(***************************************************************************)
(* State of the store and of the directory it works on.                    *)
(***************************************************************************)
VARIABLES
    now,                     \* SystemTime::now(), in seconds
    claude_dir,              \* ConfigService.claude_dir, as path components
    live,                    \* the file settings.json
    profileFiles,            \* the files <name>.settings.json
    backups,                 \* the seconds ts for which settings.json.backup.<ts> exists
    tmpExists,               \* whether settings.json.tmp exists
    profiles,                \* ConfigService.profiles
    profile_cache,           \* ConfigService.profile_cache
    default_settings_cache,  \* ConfigService.default_settings_cache
    last,                    \* the last call: operation, argument, result, file operations
    stProfile,               \* argument of the status computation
    stResult,                \* result of the status computation
    mfiles,                  \* the files at the paths handed to the monitor
    monitored_files,         \* MonitorService.monitored_files
    file_metadata,           \* MonitorService.file_metadata
    is_running,              \* MonitorService.is_running
    tasks,                   \* the poll tasks spawned by start_monitoring
    mlast,                   \* the last call of the monitor or step of a task
    monitor_interval_minutes, \* MonitorService.monitor_interval_minutes
    current_settings,        \* SettingsService.current_settings
    settings_file,           \* the file cccs_settings.json and its temporary file
    slast,                   \* the last call that sets the interval
    pc,                      \* the position of each thread in its code
    held                     \* the thread that holds each mutex

storeVars == <<now, claude_dir, live, profileFiles, backups, tmpExists, profiles,
               profile_cache, default_settings_cache, last, stProfile, stResult>>

monVars == <<mfiles, monitored_files, file_metadata, is_running, tasks, mlast>>

setVars == <<monitor_interval_minutes, current_settings, settings_file, slast>>

lockVars == <<pc, held>>

vars == <<now, claude_dir, live, profileFiles, backups, tmpExists, profiles,
          profile_cache, default_settings_cache, last, stProfile, stResult,
          mfiles, monitored_files, file_metadata, is_running, tasks, mlast,
          monitor_interval_minutes, current_settings, settings_file, slast,
          pc, held>>

(***************************************************************************)
(* Threads and mutexes.  The code of a thread is a sequence of             *)
(* instructions: lock and unlock of a mutex, a call of a store operation,  *)
(* a probe of a file, a step that touches no mutex, and a jump taken when  *)
(* the call before it returned an error.                                   *)
(***************************************************************************)
I(op, arg) == [op |-> op, arg |-> arg, to |-> 0]

OnError(to) == [op |-> "on_error", arg |-> "", to |-> to]

\* App::initialize, with setup_monitoring, setup_tray,
\* setup_event_listeners and refresh_all_status in line.
initialize ==
    << I("lock", "config"), I("call", "scan"), I("unlock", "config"),
       I("lock", "config"), I("unlock", "config"),
       I("step", "start_monitoring"),
       I("lock", "tray"),
       I("lock", "config"), I("unlock", "config"),
       I("lock", "i18n"), I("unlock", "i18n"),
       I("unlock", "tray"),
       I("step", "listen"),
       I("lock", "config"), I("call", "refresh"), I("unlock", "config"),
       I("lock", "config"), I("unlock", "config"),
       I("lock", "config"), I("unlock", "config"),
       I("lock", "tray"),
       I("lock", "i18n"), I("unlock", "i18n"),
       I("unlock", "tray") >>

\* The closure handed to start_monitoring.
change_callback ==
    << I("lock", "config"), I("call", "refresh"),
       I("lock", "tray"), I("unlock", "tray"),
       I("unlock", "config") >>

\* Variant: the switch runs without the mutex of the store.
profile_switch_requested_unlocked ==
    << I("lock", "tray"), I("unlock", "tray"),
       I("call", "switch"), OnError(12),
       I("lock", "config"),
       I("lock", "tray"),
       I("lock", "i18n"), I("unlock", "i18n"),
       I("unlock", "tray"),
       I("unlock", "config"),
       I("end", ""),
       I("lock", "tray"), I("unlock", "tray") >>

\* The listener of profile_switch_requested.  The result of the switch is
\* a local of the listener: the jump on it is placed at the call.
profile_switch_requested ==
    << I("lock", "tray"), I("unlock", "tray"),
       I("lock", "config"), I("call", "switch"), OnError(14),
       I("unlock", "config"),
       I("lock", "config"),
       I("lock", "tray"),
       I("lock", "i18n"), I("unlock", "i18n"),
       I("unlock", "tray"),
       I("unlock", "config"),
       I("end", ""),
       I("unlock", "config"),
       I("lock", "tray"), I("unlock", "tray") >>

\* The listener of tray_icon_hover.
tray_icon_hover ==
    << I("lock", "config"), I("call", "scan"), OnError(6),
       I("lock", "tray"), I("unlock", "tray"),
       I("unlock", "config") >>

\* The lock of the fingerprint cache and the probes of the watched files in
\* perform_scan_optimized, for a watch list of two paths: the copy of the
\* cache, the loop over the paths, the batch update when there are changes.
perform_scan_optimized_locking ==
    << I("lock", "file_metadata"), I("step", "clone"), I("unlock", "file_metadata"),
       I("probe", "scan_single_file"), I("probe", "scan_single_file"),
       [op |-> "if_empty", arg |-> "changes", to |-> 0],
       I("lock", "file_metadata"),
       I("probe", "get_file_metadata_optimized"), I("step", "insert"),
       I("probe", "get_file_metadata_optimized"), I("step", "insert"),
       I("unlock", "file_metadata") >>

\* The same in perform_scan, which force_scan calls.
perform_scan_locking ==
    << I("lock", "file_metadata"),
       I("probe", "get_file_metadata"), I("step", "insert"),
       I("probe", "get_file_metadata"), I("step", "insert"),
       I("unlock", "file_metadata") >>

\* The same in initialize_file_metadata, which start_monitoring calls.
initialize_file_metadata_locking ==
    << I("lock", "file_metadata"),
       I("probe", "get_file_metadata"), I("step", "insert"),
       I("probe", "get_file_metadata"), I("step", "insert"),
       I("unlock", "file_metadata") >>

Program(h) ==
    CASE h = "initialize"               -> initialize
      [] h = "tick"                     -> perform_scan_optimized_locking
      [] h = "force_scan"               -> perform_scan_locking
      [] h = "start_monitoring"         -> initialize_file_metadata_locking
      [] h = "callback"                 -> change_callback
      [] h = "profile_switch_requested" -> profile_switch_requested
      [] h = "tray_icon_hover"          -> tray_icon_hover

\* The threads that run their code once.
Once == {"initialize"}

Idle == [op |-> "idle", arg |-> "", to |-> 0]

\* The instruction a thread is at.
Instr(h) == IF pc[h] \in 1..Len(Program(h)) THEN Program(h)[pc[h]] ELSE Idle

After(h) == IF pc[h] = Len(Program(h)) /\ h \notin Once THEN 0 ELSE pc[h] + 1

\* Variant: a mutex that is held is handed out as well.
acquire_unguarded(h, m) ==
    /\ held' = [held EXCEPT ![m] = h]
    /\ pc' = [pc EXCEPT ![h] = After(h)]

\* Mutex::lock: blocks while another thread holds the mutex.
acquire(h, m) ==
    /\ held[m] = "none"
    /\ held' = [held EXCEPT ![m] = h]
    /\ pc' = [pc EXCEPT ![h] = After(h)]

\* The guard is dropped.
release(h, m) ==
    /\ held' = [held EXCEPT ![m] = IF @ = h THEN "none" ELSE @]
    /\ pc' = [pc EXCEPT ![h] = After(h)]

\* The positions of the threads after the store operation op returned to
\* the thread that called it.
Return(op) ==
    [h \in DOMAIN pc |-> IF Instr(h) = I("call", op) THEN After(h) ELSE pc[h]]

Calling(op) == \E h \in DOMAIN pc : Instr(h) = I("call", op)

\* One instruction of thread h that is no call of the store.
Lock(h) ==
    /\ Instr(h).op = "lock"
    /\ acquire(h, Instr(h).arg)
    /\ UNCHANGED <<storeVars, monVars, setVars>>

Unlock(h) ==
    /\ Instr(h).op = "unlock"
    /\ release(h, Instr(h).arg)
    /\ UNCHANGED <<storeVars, monVars, setVars>>

Step(h) ==
    /\ Instr(h).op \in {"step", "probe"}
    /\ pc' = [pc EXCEPT ![h] = After(h)]
    /\ UNCHANGED <<storeVars, monVars, setVars, held>>

Jump(h) ==
    /\ Instr(h).op = "on_error"
    /\ pc' = [pc EXCEPT ![h] = IF last.result.ok THEN After(h) ELSE Instr(h).to]
    /\ UNCHANGED <<storeVars, monVars, setVars, held>>

\* The test of a list that is empty or not.
Test(h) ==
    /\ Instr(h).op = "if_empty"
    /\ \E empty \in BOOLEAN : pc' = [pc EXCEPT ![h] = IF empty THEN Instr(h).to ELSE After(h)]
    /\ UNCHANGED <<storeVars, monVars, setVars, held>>

End(h) ==
    /\ Instr(h).op = "end"
    /\ pc' = [pc EXCEPT ![h] = 0]
    /\ UNCHANGED <<storeVars, monVars, setVars, held>>

\* The event of a listener arrives, the closure is called.
Begin(h) ==
    /\ pc[h] = 0
    /\ pc' = [pc EXCEPT ![h] = 1]
    /\ UNCHANGED <<storeVars, monVars, setVars, held>>

\* No thread and no mutex.
NoThreads ==
    /\ pc = [h \in {} |-> 0]
    /\ held = [m \in {} |-> "none"]

CacheTtl == 60

KeepBackups == 5

ProfileOrder == <<"home", "list", "work">>

ProfileNames == {ProfileOrder[i] : i \in 1..Len(ProfileOrder)}

\* Names handed to switch_profile: the profile names, the empty name and a
\* name no file has.
SwitchNames == ProfileNames \cup {"", "ghost"}

\* The stem of a file name longer than load_profile_optimized accepts.
LongName == "long"

MaxNameLen == 255

\* The directory listing, in the order read_dir yields it: the stems of the
\* files <stem>.settings.json, the empty stem for the file `.settings.json`.
DirOrder == <<"", "home", "list", LongName, "work">>

DirStems == {DirOrder[i] : i \in 1..Len(DirOrder)}

\* str::len of a name of the model.
len(name) ==
    CASE name = ""       -> 0
      [] name = LongName -> 256
      [] name = "ghost"  -> 5
      [] OTHER           -> 4

ClaudeDirs == {<<"home", ".claude">>}

File(c, m) == [exists |-> TRUE, content |-> c, mtime |-> m]

NoFile == [exists |-> FALSE, content |-> Garbage, mtime |-> 0]

\* The example of the specification: two settings that differ in `model`.
DarkM1 == ObjText(<<Member("theme", Str("dark")), Member("model", Str("m1"))>>, FALSE)

DarkM2 == ObjText(<<Member("theme", Str("dark")), Member("model", Str("m2"))>>, FALSE)

LightM1 == ObjText(<<Member("model", Str("m1")), Member("theme", Str("light"))>>, FALSE)

\* What an external writer may put into settings.json.
LiveContents == {DarkM1, DarkM2, Garbage}

OkResult == [ok |-> TRUE, variant |-> "", msg |-> ""]

Err(variant, msg) == [ok |-> FALSE, variant |-> variant, msg |-> msg]

Call(op, name, result, pre, log) ==
    [op |-> op, name |-> name, result |-> result,
     pre |-> [exists |-> pre.exists, content |-> pre.content], log |-> log,
     returned |-> <<>>]

\* The live-settings slot (content, cached_time).  modified is the
\* modification time the file had at the read; the code does not store it.
NoCache == [some |-> FALSE, content |-> Garbage, time |-> 0, modified |-> 0]

EmptyCache == [n \in {} |-> 0]

(***************************************************************************)
(* File names and paths.  A file name is the sequence of its parts; a path *)
(* is the directory's components followed by the parts of the file name.   *)
(***************************************************************************)
\* default_settings_path = claude_dir.join("settings.json")
default_settings_path == claude_dir \o <<"settings.json">>

\* entry.file_name() of the backup written at second ts.
backup_file_name(ts) == <<"settings.json", ".backup.", ToString(ts)>>

\* entry.file_name() of the profile file with the given stem.
profile_file_name(stem) ==
    IF stem = "" THEN <<".settings.json">> ELSE <<stem, ".settings.json">>

\* str::ends_with for a suffix that is one part.
ends_with(filename, suffix) ==
    IF filename = <<>> THEN FALSE ELSE filename[Len(filename)] = suffix

\* str::strip_suffix of a file name of a stem and the suffix.
strip_suffix(filename, suffix) ==
    IF Len(filename) = 1 THEN "" ELSE filename[1]

(***************************************************************************)
(* Content caches.                                                         *)
(***************************************************************************)
\* fs::read_to_string
read_to_string(file) ==
    IF file.exists /\ file.content.kind # "binary"
    THEN [ok |-> TRUE, content |-> file.content]
    ELSE [ok |-> FALSE, content |-> Garbage]

\* last_updated.elapsed() fails when the clock is before last_updated.
is_cache_valid(last_updated, t) ==
    IF t >= last_updated THEN t - last_updated < CacheTtl ELSE FALSE

get_file_metadata(file) == [modified_time |-> file.mtime]

\* Returns the result of the read and the cache after the call.
get_file_content_cached(cache, path, file, t) ==
    IF /\ path \in DOMAIN cache
       /\ is_cache_valid(cache[path].last_updated, t)
       /\ file.exists
       /\ file.mtime <= cache[path].metadata.modified_time
    THEN [ok |-> TRUE, content |-> cache[path].content, cache |-> cache]
    ELSE IF ~read_to_string(file).ok
         THEN [ok |-> FALSE, content |-> Garbage, cache |-> cache]
         ELSE LET entry == [metadata |-> get_file_metadata(file),
                            content |-> file.content,
                            last_updated |-> t]
              IN [ok |-> TRUE, content |-> file.content,
                  cache |-> [p \in (DOMAIN cache) \cup {path} |->
                                IF p = path THEN entry ELSE cache[p]]]

\* get_file_content_cached while another program writes the file: file is
\* what the test of the entry and fs::read_to_string see, probed what
\* get_file_metadata sees after the content was read.
get_file_content_cached_during(cache, path, file, probed, t) ==
    IF /\ path \in DOMAIN cache
       /\ is_cache_valid(cache[path].last_updated, t)
       /\ file.exists
       /\ file.mtime <= cache[path].metadata.modified_time
    THEN [ok |-> TRUE, content |-> cache[path].content, cache |-> cache]
    ELSE IF ~read_to_string(file).ok
         THEN [ok |-> FALSE, content |-> Garbage, cache |-> cache]
         ELSE IF ~read_to_string(probed).ok
         THEN [ok |-> TRUE, content |-> file.content, cache |-> cache]
         ELSE LET entry == [metadata |-> get_file_metadata(probed),
                            content |-> file.content,
                            last_updated |-> t]
              IN [ok |-> TRUE, content |-> file.content,
                  cache |-> [p \in (DOMAIN cache) \cup {path} |->
                                IF p = path THEN entry ELSE cache[p]]]

get_default_settings_cached(cache, file, t) ==
    IF /\ cache.some
       /\ is_cache_valid(cache.time, t)
       /\ file.exists
       /\ file.mtime <= cache.time
    THEN [ok |-> TRUE, content |-> cache.content, cache |-> cache]
    ELSE IF ~file.exists
         THEN [ok |-> FALSE, content |-> Garbage, cache |-> cache]
         ELSE [ok |-> TRUE, content |-> file.content,
               cache |-> [some |-> TRUE, content |-> file.content, time |-> t,
                          modified |-> file.mtime]]

(***************************************************************************)
(* Scan and status refresh.                                                *)
(***************************************************************************)
SetActive(ps, b) == [i \in 1..Len(ps) |-> [ps[i] EXCEPT !.is_active = b]]

\* Returns the profiles with their flags and the live-settings cache.
update_profile_status_optimized(ps, cache, file, t) ==
    IF ps = <<>> THEN [profiles |-> ps, cache |-> cache]
    ELSE LET d == get_default_settings_cached(cache, file, t)
         IN IF ~d.ok THEN [profiles |-> SetActive(ps, FALSE), cache |-> d.cache]
            ELSE LET j == from_str(d.content)
                 IN IF ~j.ok THEN [profiles |-> SetActive(ps, FALSE), cache |-> d.cache]
                    ELSE [profiles |->
                             [i \in 1..Len(ps) |->
                                [ps[i] EXCEPT !.is_active =
                                    compare_configurations_optimized(ps[i].content, j.val)]],
                          cache |-> d.cache]

\* Returns the load result of one directory entry and the cache after it.
load_profile_optimized(cache, name, path, file, t) ==
    IF name = "" THEN [ok |-> FALSE, profile |-> <<>>, cache |-> cache]
    ELSE IF len(name) > MaxNameLen THEN [ok |-> FALSE, profile |-> <<>>, cache |-> cache]
    ELSE
    LET c == get_file_content_cached(cache, path, file, t)
    IN IF ~c.ok THEN [ok |-> FALSE, profile |-> <<>>, cache |-> c.cache]
       ELSE IF ~from_str(c.content).ok THEN [ok |-> FALSE, profile |-> <<>>, cache |-> c.cache]
       ELSE [ok |-> TRUE,
             profile |-> <<[name |-> name, path |-> path, content |-> c.content,
                            is_active |-> FALSE]>>,
             cache |-> c.cache]

load_profile_optimized_during(cache, name, path, file, probed, t) ==
    IF name = "" THEN [ok |-> FALSE, profile |-> <<>>, cache |-> cache]
    ELSE IF len(name) > MaxNameLen THEN [ok |-> FALSE, profile |-> <<>>, cache |-> cache]
    ELSE
    LET c == get_file_content_cached_during(cache, path, file, probed, t)
    IN IF ~c.ok THEN [ok |-> FALSE, profile |-> <<>>, cache |-> c.cache]
       ELSE IF ~from_str(c.content).ok THEN [ok |-> FALSE, profile |-> <<>>, cache |-> c.cache]
       ELSE [ok |-> TRUE,
             profile |-> <<[name |-> name, path |-> path, content |-> c.content,
                            is_active |-> FALSE]>>,
             cache |-> c.cache]

RECURSIVE BackupEntries(_)
BackupEntries(bk) ==
    IF bk = {} THEN <<>>
    ELSE LET ts == CHOOSE u \in bk : \A v \in bk : u <= v
         IN <<backup_file_name(ts)>> \o BackupEntries(bk \ {ts})

RECURSIVE ProfileEntries(_, _)
ProfileEntries(order, files) ==
    IF order = <<>> THEN <<>>
    ELSE (IF files[Head(order)].exists THEN <<profile_file_name(Head(order))>> ELSE <<>>)
         \o ProfileEntries(Tail(order), files)

\* fs::read_dir(claude_dir): the file names of the directory.
read_dir ==
    (IF live.exists THEN << <<"settings.json">> >> ELSE <<>>)
    \o (IF tmpExists THEN << <<"settings.json", ".tmp">> >> ELSE <<>>)
    \o BackupEntries(backups)
    \o ProfileEntries(DirOrder, profileFiles)

\* Variant: the first entry that fails to load ends the loop.
RECURSIVE ScanEntries_stop_at_error(_, _, _, _)
ScanEntries_stop_at_error(entries, cache, files, t) ==
    IF entries = <<>> THEN [profiles |-> <<>>, cache |-> cache]
    ELSE LET filename == Head(entries)
             profile_name == strip_suffix(filename, ".settings.json")
         IN IF /\ ends_with(filename, ".settings.json")
               /\ filename # <<"settings.json">>
               /\ profile_name # ""
            THEN LET l == load_profile_optimized(cache, profile_name, claude_dir \o filename,
                                                 files[profile_name], t)
                     rest == ScanEntries_stop_at_error(Tail(entries), l.cache, files, t)
                 IN IF l.ok
                    THEN [profiles |-> l.profile \o rest.profiles, cache |-> rest.cache]
                    ELSE [profiles |-> <<>>, cache |-> l.cache]
            ELSE ScanEntries_stop_at_error(Tail(entries), cache, files, t)

\* The loop over the directory entries, in listing order.
RECURSIVE ScanEntries(_, _, _, _)
ScanEntries(entries, cache, files, t) ==
    IF entries = <<>> THEN [profiles |-> <<>>, cache |-> cache]
    ELSE LET filename == Head(entries)
             profile_name == strip_suffix(filename, ".settings.json")
         IN IF /\ ends_with(filename, ".settings.json")
               /\ filename # <<"settings.json">>
               /\ profile_name # ""
            THEN LET l == load_profile_optimized(cache, profile_name, claude_dir \o filename,
                                                 files[profile_name], t)
                     rest == ScanEntries(Tail(entries), l.cache, files, t)
                 IN [profiles |-> l.profile \o rest.profiles, cache |-> rest.cache]
            ELSE ScanEntries(Tail(entries), cache, files, t)

\* The loop over the directory entries while other programs write: files
\* are the files as they are read, probed as their fingerprints are taken.
RECURSIVE ScanEntriesDuring(_, _, _, _, _)
ScanEntriesDuring(entries, cache, files, probed, t) ==
    IF entries = <<>> THEN [profiles |-> <<>>, cache |-> cache]
    ELSE LET filename == Head(entries)
             profile_name == strip_suffix(filename, ".settings.json")
         IN IF /\ ends_with(filename, ".settings.json")
               /\ filename # <<"settings.json">>
               /\ profile_name # ""
            THEN LET l == load_profile_optimized_during(
                              cache, profile_name, claude_dir \o filename,
                              files[profile_name], probed[profile_name], t)
                     rest == ScanEntriesDuring(Tail(entries), l.cache, files, probed, t)
                 IN [profiles |-> l.profile \o rest.profiles, cache |-> rest.cache]
            ELSE ScanEntriesDuring(Tail(entries), cache, files, probed, t)

\* scan_profiles while another program writes content c to the file of
\* profile n, after the scan read the file and before it took its
\* fingerprint.  The write advances the modification time of the file.
scan_profiles_during_write(n, c) ==
    LET written == [profileFiles EXCEPT ![n] = File(c, now + 1)]
        s == ScanEntriesDuring(read_dir, profile_cache, profileFiles, written, now + 1)
        u == update_profile_status_optimized(s.profiles, default_settings_cache, live,
                                             now + 1)
    IN /\ now < MaxNowScan
       /\ now' = now + 1
       /\ profileFiles' = written
       /\ profiles' = u.profiles
       /\ profile_cache' = s.cache
       /\ default_settings_cache' = u.cache
       /\ last' = [Call("scan", "", OkResult, NoFile, <<>>) EXCEPT !.returned = u.profiles]
       /\ UNCHANGED <<monVars, setVars, lockVars, claude_dir, live, backups, tmpExists,
                      stProfile, stResult>>

\* What the path of the Claude directory is when a scan starts: a
\* directory that can be listed, nothing, a file, or a directory that
\* cannot be listed.
DirStates == {"directory", "missing", "file", "unreadable"}

\* Variant: a scan that fails empties the stored list.
scan_profiles_in_clears(dir) ==
    IF dir = "directory"
    THEN LET s == ScanEntries(read_dir, profile_cache, profileFiles, now)
             u == update_profile_status_optimized(s.profiles, default_settings_cache, live,
                                                  now)
         IN /\ profiles' = u.profiles
            /\ profile_cache' = s.cache
            /\ default_settings_cache' = u.cache
            /\ last' = [Call("scan", "", OkResult, NoFile, <<>>)
                           EXCEPT !.returned = u.profiles]
            /\ pc' = Return("scan")
            /\ UNCHANGED <<monVars, setVars, held, now, claude_dir, live, profileFiles, backups,
                           tmpExists, stProfile, stResult>>
    ELSE /\ profiles' = <<>>
         /\ last' = Call("scan", "",
                         Err("FileSystemError",
                             CASE dir = "missing" -> "Claude directory does not exist"
                               [] dir = "file"    -> "Claude path is not a directory"
                               [] OTHER           -> "Failed to read Claude directory"),
                         NoFile, <<>>)
         /\ pc' = Return("scan")
         /\ UNCHANGED <<monVars, setVars, held, now, claude_dir, live, profileFiles, backups,
                        tmpExists, profile_cache, default_settings_cache, stProfile,
                        stResult>>

\* scan_profiles with the Claude directory in state dir.
scan_profiles_in(dir) ==
    IF dir = "directory"
    THEN LET s == ScanEntries(read_dir, profile_cache, profileFiles, now)
             u == update_profile_status_optimized(s.profiles, default_settings_cache, live,
                                                  now)
         IN /\ profiles' = u.profiles
            /\ profile_cache' = s.cache
            /\ default_settings_cache' = u.cache
            /\ last' = [Call("scan", "", OkResult, NoFile, <<>>)
                           EXCEPT !.returned = u.profiles]
            /\ pc' = Return("scan")
            /\ UNCHANGED <<monVars, setVars, held, now, claude_dir, live, profileFiles, backups,
                           tmpExists, stProfile, stResult>>
    ELSE /\ profiles' = profiles
         /\ last' = Call("scan", "",
                         Err("FileSystemError",
                             CASE dir = "missing" -> "Claude directory does not exist"
                               [] dir = "file"    -> "Claude path is not a directory"
                               [] OTHER           -> "Failed to read Claude directory"),
                         NoFile, <<>>)
         /\ pc' = Return("scan")
         /\ UNCHANGED <<monVars, setVars, held, now, claude_dir, live, profileFiles, backups,
                        tmpExists, profile_cache, default_settings_cache, stProfile,
                        stResult>>

scan_profiles == scan_profiles_in("directory")

\* Variant: the live settings file is left out.
get_monitored_files_profiles_only(ps) ==
    [i \in 1..Len(ps) |-> ps[i].path]

\* The paths the application hands to the monitor.
get_monitored_files(ps) ==
    <<default_settings_path>> \o [i \in 1..Len(ps) |-> ps[i].path]

\* Variant: the directory is read again before the flags are set.
refresh_profile_status_rescans ==
    LET s == ScanEntries(read_dir, profile_cache, profileFiles, now)
        u == update_profile_status_optimized(s.profiles, default_settings_cache, live, now)
    IN /\ profiles' = u.profiles
       /\ profile_cache' = s.cache
       /\ default_settings_cache' = u.cache
       /\ last' = Call("refresh", "", OkResult, NoFile, <<>>)
       /\ pc' = Return("refresh")
       /\ UNCHANGED <<monVars, setVars, held, now, claude_dir, live, profileFiles, backups,
                      tmpExists,
                      stProfile, stResult>>

refresh_profile_status ==
    LET u == update_profile_status_optimized(profiles, default_settings_cache, live, now)
    IN /\ profiles' = u.profiles
       /\ default_settings_cache' = u.cache
       /\ last' = Call("refresh", "", OkResult, NoFile, <<>>)
       /\ pc' = Return("refresh")
       /\ UNCHANGED <<monVars, setVars, held, now, claude_dir, live, profileFiles, backups,
                      tmpExists,
                      profile_cache, stProfile, stResult>>


(***************************************************************************)
(* Backups.                                                                *)
(***************************************************************************)
\* Path::display: the components joined by the separator.
RECURSIVE display(_)
display(path) ==
    IF Len(path) <= 1 THEN path
    ELSE <<Head(path), "/">> \o display(Tail(path))

\* str::starts_with
starts_with(s, prefix) ==
    IF Len(prefix) > Len(s) THEN FALSE
    ELSE SubSeq(s, 1, Len(prefix)) = prefix

backup_pattern == display(default_settings_path) \o <<".backup.">>

\* The entries kept by the filter of cleanup_old_backups.
backup_files(bk) == {ts \in bk : starts_with(backup_file_name(ts), backup_pattern)}

\* A backup is modified when it is copied, at second ts.  Sorted newest
\* first, skip(5) leaves the entries with at least 5 newer ones.
old_backups(bk) ==
    {ts \in backup_files(bk) :
        Cardinality({u \in backup_files(bk) : u > ts}) >= KeepBackups}

cleanup_old_backups(bk) == bk \ old_backups(bk)

\* fs::copy of the live settings file: the backup file it writes.  A backup
\* is read only by the call that wrote it, so the state keeps the seconds of
\* the existing backups and the call keeps the content of its own.
\* Variant: the error of fs::copy is dropped.
create_backup_unchecked(file, fault, t) ==
    IF fault = "backup"
    THEN [ok |-> TRUE, file |-> NoFile, log |-> <<>>]
    ELSE [ok |-> TRUE, file |-> File(file.content, t), log |-> <<"copy live backup">>]

create_backup(file, fault, t) ==
    IF fault = "backup"
    THEN [ok |-> FALSE, file |-> NoFile, log |-> <<>>]
    ELSE [ok |-> TRUE, file |-> File(file.content, t), log |-> <<"copy live backup">>]

\* Variant: the backup is validated and removed but not moved into place.
restore_from_backup_unmoved(backup, file, rfault, t) ==
    IF ~backup.exists \/ rfault # "none" \/ ~from_str(backup.content).ok
    THEN [res |-> Err("FileSystemError", "Failed to restore from backup"),
          live |-> file, kept |-> backup.exists, log |-> <<>>]
    ELSE [res |-> OkResult, live |-> file, kept |-> FALSE, log |-> <<"remove backup">>]

\* Returns the result, the live file, whether the backup file is left and the
\* file operations.
restore_from_backup(backup, file, rfault, t) ==
    IF ~backup.exists
    THEN [res |-> Err("FileSystemError", "Backup file does not exist"),
          live |-> file, kept |-> FALSE, log |-> <<>>]
    ELSE IF rfault = "read"
    THEN [res |-> Err("FileSystemError", "Failed to read backup file"),
          live |-> file, kept |-> TRUE, log |-> <<>>]
    ELSE IF ~from_str(backup.content).ok
    THEN [res |-> Err("ConfigError", "Backup file contains invalid JSON"),
          live |-> file, kept |-> TRUE, log |-> <<>>]
    ELSE IF rfault = "copy"
    THEN [res |-> Err("FileSystemError", "Failed to copy backup to temp"),
          live |-> file, kept |-> TRUE, log |-> <<>>]
    ELSE IF rfault = "rename"
    THEN [res |-> Err("FileSystemError", "Failed to restore from backup"),
          live |-> file, kept |-> TRUE,
          log |-> <<"copy backup restore_tmp", "remove restore_tmp">>]
    ELSE [res |-> OkResult,
          live |-> File(backup.content, t),
          kept |-> FALSE,
          log |-> <<"copy backup restore_tmp", "rename restore_tmp live", "remove backup">>]

(***************************************************************************)
(* The switch.  fault names the file operation of the write that fails,    *)
(* rfault the one of the restore.                                          *)
(***************************************************************************)
Faults == {"none", "probe_write", "backup", "tmp_cleanup", "tmp_write", "tmp_write_partial",
           "tmp_read", "tmp_corrupt", "rename", "final_read", "final_corrupt"}

RestoreFaults == {"none", "read", "copy", "rename"}

\* Variant: the temp file is renamed whatever its read-back returned.
perform_switch_atomic_unverified(new_content, file, tmp, fault, t) ==
    LET j == from_str(new_content)
        normalized_content == to_string_pretty(j.val)
        cleanup == IF tmp THEN <<"remove tmp">> ELSE <<>>
        out(res, f, x, l) == [res |-> res, live |-> f, tmp |-> x, log |-> l]
    IN IF ~j.ok
       THEN out(Err("ConfigError", "Invalid JSON content"), file, tmp, <<>>)
       ELSE IF ~is_object(j.val)
       THEN out(Err("ConfigError", "Configuration must be a JSON object"), file, tmp, <<>>)
       ELSE IF tmp /\ fault = "tmp_cleanup"
       THEN out(Err("FileSystemError", "Failed to clean up temp file"), file, tmp, <<>>)
       ELSE IF fault = "tmp_write"
       THEN out(Err("FileSystemError", "Failed to write temporary file"), file, FALSE, cleanup)
       ELSE IF fault = "tmp_write_partial"
       THEN out(Err("FileSystemError", "Failed to write temporary file"), file, TRUE,
                cleanup \o <<"write tmp">>)
       ELSE IF fault = "tmp_read"
       THEN out(Err("FileSystemError", "Failed to verify temp file"), file, TRUE,
                cleanup \o <<"write tmp">>)
       ELSE IF fault = "tmp_corrupt"
       THEN out(Err("FileSystemError", "Final file verification failed"),
                File(Garbage, t), FALSE,
                cleanup \o <<"write tmp", "read tmp differs", "rename tmp live",
                             "read live differs">>)
       ELSE IF fault = "rename"
       THEN out(Err("FileSystemError", "Failed to replace settings file"), file, FALSE,
                cleanup \o <<"write tmp", "read tmp", "remove tmp">>)
       ELSE IF fault = "final_read"
       THEN out(Err("FileSystemError", "Failed to verify final file"),
                File(normalized_content, t), FALSE,
                cleanup \o <<"write tmp", "read tmp", "rename tmp live">>)
       ELSE IF fault = "final_corrupt"
       THEN out(Err("FileSystemError", "Final file verification failed"),
                File(Garbage, t), FALSE,
                cleanup \o <<"write tmp", "read tmp", "rename tmp live", "read live differs">>)
       ELSE out(OkResult, File(normalized_content, t), FALSE,
                cleanup \o <<"write tmp", "read tmp", "rename tmp live", "read live">>)

\* Returns the result, the live file, whether the temp file is left and the
\* file operations that succeeded; a read-back that differs from the intended
\* content is marked.
perform_switch_atomic(new_content, file, tmp, fault, t) ==
    LET j == from_str(new_content)
        normalized_content == to_string_pretty(j.val)
        cleanup == IF tmp THEN <<"remove tmp">> ELSE <<>>
        out(res, f, x, l) == [res |-> res, live |-> f, tmp |-> x, log |-> l]
    IN IF ~j.ok
       THEN out(Err("ConfigError", "Invalid JSON content"), file, tmp, <<>>)
       ELSE IF ~is_object(j.val)
       THEN out(Err("ConfigError", "Configuration must be a JSON object"), file, tmp, <<>>)
       ELSE IF tmp /\ fault = "tmp_cleanup"
       THEN out(Err("FileSystemError", "Failed to clean up temp file"), file, tmp, <<>>)
       ELSE IF fault = "tmp_write"
       THEN out(Err("FileSystemError", "Failed to write temporary file"), file, FALSE, cleanup)
       ELSE IF fault = "tmp_write_partial"
       THEN out(Err("FileSystemError", "Failed to write temporary file"), file, TRUE,
                cleanup \o <<"write tmp">>)
       ELSE IF fault = "tmp_read"
       THEN out(Err("FileSystemError", "Failed to verify temp file"), file, TRUE,
                cleanup \o <<"write tmp">>)
       ELSE IF fault = "tmp_corrupt"
       THEN out(Err("FileSystemError", "Temp file verification failed"), file, FALSE,
                cleanup \o <<"write tmp", "read tmp differs", "remove tmp">>)
       ELSE IF fault = "rename"
       THEN out(Err("FileSystemError", "Failed to replace settings file"), file, FALSE,
                cleanup \o <<"write tmp", "read tmp", "remove tmp">>)
       ELSE IF fault = "final_read"
       THEN out(Err("FileSystemError", "Failed to verify final file"),
                File(normalized_content, t), FALSE,
                cleanup \o <<"write tmp", "read tmp", "rename tmp live">>)
       ELSE IF fault = "final_corrupt"
       THEN out(Err("FileSystemError", "Final file verification failed"),
                File(Garbage, t), FALSE,
                cleanup \o <<"write tmp", "read tmp", "rename tmp live", "read live differs">>)
       ELSE out(OkResult, File(normalized_content, t), FALSE,
                cleanup \o <<"write tmp", "read tmp", "rename tmp live", "read live">>)

\* Variant: the live-settings slot is not dropped.
clear_cache_profiles_only ==
    [profile_cache |-> EmptyCache, default_settings_cache |-> default_settings_cache]

clear_cache == [profile_cache |-> EmptyCache, default_settings_cache |-> NoCache]

\* Variant: an empty result falls back to the first profile.
Find_or_first(ps, name) ==
    IF \E i \in 1..Len(ps) : ps[i].name = name
    THEN {i \in 1..Len(ps) : ps[i].name = name}
    ELSE {i \in 1..Len(ps) : i = 1}

\* self.profiles.iter().find(|p| p.name == profile_name): the matching indices.
Find(ps, name) == {i \in 1..Len(ps) : ps[i].name = name}

\* Variant: a name without a profile has the status of a profile that
\* differs from the live settings.
get_profile_status_unknown_differs(ps, name, file) ==
    IF Find(ps, name) = {} THEN "NoMatch"
    ELSE LET i == CHOOSE j \in Find(ps, name) : \A k \in Find(ps, name) : j <= k
         IN get_detailed_profile_status(ps[i].content, file)

get_profile_status(ps, name, file) ==
    IF Find(ps, name) = {} THEN "Error"
    ELSE LET i == CHOOSE j \in Find(ps, name) : \A k \in Find(ps, name) : j <= k
         IN get_detailed_profile_status(ps[i].content, file)

\* The whole of switch_profile: the state after the call and its result.
switch_outcome(name, fault, rfault) ==
    LET same(res, l) ==
            [res |-> res, live |-> live, tmp |-> tmpExists, backups |-> backups,
             profiles |-> profiles, profile_cache |-> profile_cache,
             default_settings_cache |-> default_settings_cache, log |-> l]
        probe == <<"write write_test", "remove write_test">>
    IN IF name = ""
       THEN same(Err("ConfigError", "Profile name cannot be empty"), <<>>)
       ELSE IF Find(profiles, name) = {}
       THEN same(Err("ConfigError", "Profile not found"), <<>>)
       ELSE LET profile == profiles[CHOOSE i \in Find(profiles, name) :
                                       \A k \in Find(profiles, name) : i <= k]
            IN IF profile.is_active
               THEN same(OkResult, <<>>)
               ELSE IF ~from_str(profile.content).ok
               THEN same(Err("ConfigError", "Profile contains invalid JSON"), <<>>)
               ELSE IF ~live.exists
               THEN same(Err("FileSystemError", "Default settings file does not exist"), <<>>)
               ELSE IF fault = "probe_write"
               THEN same(Err("FileSystemError", "Cannot write to settings directory"), <<>>)
               ELSE
               LET timestamp == now
                   backup == create_backup(live, fault, now)
                   bk == IF backup.file.exists THEN backups \cup {timestamp} ELSE backups
                   w == perform_switch_atomic(profile.content, live, tmpExists, fault, now)
                   log1 == probe \o backup.log \o w.log
               IN IF ~backup.ok
                  THEN same(Err("FileSystemError", "Failed to create backup before switching"),
                            probe)
                  ELSE IF w.res.ok
                  THEN LET c == clear_cache
                           u == update_profile_status_optimized(
                                    profiles, c.default_settings_cache, w.live, now)
                       IN [res |-> OkResult, live |-> w.live, tmp |-> w.tmp,
                           backups |-> cleanup_old_backups(bk),
                           profiles |-> u.profiles,
                           profile_cache |-> c.profile_cache,
                           default_settings_cache |-> u.cache,
                           log |-> log1 \o [i \in 1..Cardinality(old_backups(bk)) |->
                                               "remove old backup"]]
                  ELSE LET r == restore_from_backup(backup.file, w.live, rfault, now)
                       IN [res |-> IF r.res.ok THEN w.res
                                   ELSE Err("ConfigError",
                                            "Profile switch failed and rollback failed"),
                           live |-> r.live, tmp |-> w.tmp,
                           backups |-> IF r.kept THEN bk ELSE bk \ {timestamp},
                           profiles |-> profiles, profile_cache |-> profile_cache,
                           default_settings_cache |-> default_settings_cache,
                           log |-> log1 \o r.log]

switch_profile(name, fault, rfault) ==
    LET o == switch_outcome(name, fault, rfault)
    IN /\ live' = o.live
       /\ tmpExists' = o.tmp
       /\ backups' = o.backups
       /\ profiles' = o.profiles
       /\ profile_cache' = o.profile_cache
       /\ default_settings_cache' = o.default_settings_cache
       /\ last' = Call("switch", name, o.res, live, o.log)
       /\ pc' = Return("switch")
       /\ UNCHANGED <<monVars, setVars, held, now, claude_dir, profileFiles, stProfile,
                      stResult>>

(***************************************************************************)
(* The environment: the clock and other programs writing settings.json.    *)
(***************************************************************************)
Tick(max) ==
    /\ now < max
    /\ now' = now + 1
    /\ UNCHANGED <<monVars, setVars, lockVars, claude_dir, live, profileFiles, backups,
                   tmpExists, profiles,
                   profile_cache, default_settings_cache, last, stProfile, stResult>>

ExternalWrite(c) ==
    /\ live' = File(c, now)
    /\ last' = Call("external", "", OkResult, NoFile, <<>>)
    /\ UNCHANGED <<monVars, setVars, lockVars, now, claude_dir, profileFiles, backups,
                   tmpExists, profiles,
                   profile_cache, default_settings_cache, stProfile, stResult>>

ExternalDelete ==
    /\ live.exists
    /\ live' = NoFile
    /\ last' = Call("external", "", OkResult, NoFile, <<>>)
    /\ UNCHANGED <<monVars, setVars, lockVars, now, claude_dir, profileFiles, backups,
                   tmpExists, profiles,
                   profile_cache, default_settings_cache, stProfile, stResult>>

(***************************************************************************)
(* The file monitor (src-tauri/src/monitor_service.rs).  A path is a       *)
(* number; the file at a path is missing, a directory, or a regular file   *)
(* with a modification time, a size in bytes and the CRC-32 of its content.*)
(***************************************************************************)
MaxFileSize == 10 * 1024 * 1024

ChecksumLimit == 1024 * 1024

MaxMonitoredFiles == 50

MaxCacheSize == 100

MaxScanErrors == 10

BackoffStep == 30

BackoffCap == 300

MFile(m, sz, sum) == [kind |-> "file", mtime |-> m, size |-> sz, checksum |-> sum]

Missing == [kind |-> "missing", mtime |-> 0, size |-> 0, checksum |-> 0]

Directory == [kind |-> "dir", mtime |-> 0, size |-> 4096, checksum |-> 0]

\* Path::exists
path_exists(f) == f.kind # "missing"

\* Path::is_file
path_is_file(f) == f.kind = "file"

Change(p, t) == [file_path |-> p, change_type |-> t]

NoMetadata == [p \in {} |-> 0]

Contains(files, p) == \E i \in 1..Len(files) : files[i] = p

\* HashMap::insert
Insert(cache, p, m) == [q \in (DOMAIN cache) \cup {p} |-> IF q = p THEN m ELSE cache[q]]

\* HashMap::remove
Remove(cache, p) == [q \in (DOMAIN cache) \ {p} |-> cache[q]]

\* MonitorService::get_file_metadata: metadata, then the content read as text
\* for its CRC-32.  Reading a directory fails.
MonitorService_get_file_metadata(f) ==
    [ok |-> path_is_file(f),
     metadata |-> [modified_time |-> f.mtime, checksum |-> f.checksum, size |-> f.size]]

\* fails: the call of fs::metadata fails.  The checksum stays 0 for a file
\* above 1 MiB and when the content cannot be read.
get_file_metadata_optimized(f, fails) ==
    [ok |-> path_exists(f) /\ ~fails,
     metadata |-> [modified_time |-> f.mtime,
                   checksum |-> IF f.size > ChecksumLimit \/ ~path_is_file(f)
                                THEN 0 ELSE f.checksum,
                   size |-> f.size]]

compare_metadata_optimized(cached, current) ==
    IF cached.modified_time # current.modified_time THEN TRUE
    ELSE IF cached.size # current.size THEN TRUE
    ELSE IF cached.checksum # 0 /\ current.checksum # 0
            /\ cached.checksum # current.checksum THEN TRUE
    ELSE FALSE

compare_metadata(cached, current) ==
    IF cached.modified_time # current.modified_time
    THEN IF cached.size # current.size THEN TRUE
         ELSE IF cached.checksum # current.checksum THEN TRUE
         ELSE FALSE
    ELSE FALSE

\* Variant: the entry of the removed path stays in the fingerprint cache.
add_file_to_monitor_keep_metadata(files, cache, path, f) ==
    IF ~path_exists(f) THEN [files |-> files, cache |-> cache]
    ELSE IF ~path_is_file(f) THEN [files |-> files, cache |-> cache]
    ELSE IF f.size > MaxFileSize THEN [files |-> files, cache |-> cache]
    ELSE IF Contains(files, path) THEN [files |-> files, cache |-> cache]
    ELSE LET pushed == Append(files, path)
         IN IF Len(pushed) > MaxMonitoredFiles
            THEN [files |-> Tail(pushed), cache |-> cache]
            ELSE [files |-> pushed, cache |-> cache]

\* Variant: the path is not checked to be a regular file.
add_file_to_monitor_any_kind(files, cache, path, f) ==
    IF ~path_exists(f) THEN [files |-> files, cache |-> cache]
    ELSE IF f.size > MaxFileSize THEN [files |-> files, cache |-> cache]
    ELSE IF Contains(files, path) THEN [files |-> files, cache |-> cache]
    ELSE LET pushed == Append(files, path)
         IN IF Len(pushed) > MaxMonitoredFiles
            THEN [files |-> Tail(pushed), cache |-> Remove(cache, Head(pushed))]
            ELSE [files |-> pushed, cache |-> cache]

\* Returns the watch list and the fingerprint cache after the call.
add_file_to_monitor(files, cache, path, f) ==
    IF ~path_exists(f) THEN [files |-> files, cache |-> cache]
    ELSE IF ~path_is_file(f) THEN [files |-> files, cache |-> cache]
    ELSE IF f.size > MaxFileSize THEN [files |-> files, cache |-> cache]
    ELSE IF Contains(files, path) THEN [files |-> files, cache |-> cache]
    ELSE LET pushed == Append(files, path)
         IN IF Len(pushed) > MaxMonitoredFiles
            THEN [files |-> Tail(pushed), cache |-> Remove(cache, Head(pushed))]
            ELSE [files |-> pushed, cache |-> cache]

optimize_metadata_cache(cache, files) ==
    IF Cardinality(DOMAIN cache) > MaxCacheSize
    THEN [q \in {r \in DOMAIN cache : Contains(files, r)} |-> cache[q]]
    ELSE cache

RECURSIVE initialize_file_metadata(_, _, _)
initialize_file_metadata(files, cache, disk) ==
    IF files = <<>> THEN cache
    ELSE LET p == Head(files)
             m == MonitorService_get_file_metadata(disk[p])
         IN initialize_file_metadata(
                Tail(files),
                IF path_exists(disk[p]) /\ m.ok THEN Insert(cache, p, m.metadata) ELSE cache,
                disk)

\* Variant: a new file is reported as created and as modified.
scan_single_file_created_modified(p, f, cache, fails) ==
    IF ~path_exists(f)
    THEN [ok |-> TRUE,
          changes |-> IF p \in DOMAIN cache THEN <<Change(p, "Deleted")>> ELSE <<>>]
    ELSE LET m == get_file_metadata_optimized(f, fails)
         IN IF ~m.ok THEN [ok |-> FALSE, changes |-> <<>>]
            ELSE IF p \in DOMAIN cache
            THEN [ok |-> TRUE,
                  changes |-> IF compare_metadata_optimized(cache[p], m.metadata)
                              THEN <<Change(p, "Modified")>> ELSE <<>>]
            ELSE [ok |-> TRUE, changes |-> <<Change(p, "Created"), Change(p, "Modified")>>]

\* Returns the result of the probe of one path and the changes it reports.
scan_single_file(p, f, cache, fails) ==
    IF ~path_exists(f)
    THEN [ok |-> TRUE,
          changes |-> IF p \in DOMAIN cache THEN <<Change(p, "Deleted")>> ELSE <<>>]
    ELSE LET m == get_file_metadata_optimized(f, fails)
         IN IF ~m.ok THEN [ok |-> FALSE, changes |-> <<>>]
            ELSE IF p \in DOMAIN cache
            THEN [ok |-> TRUE,
                  changes |-> IF compare_metadata_optimized(cache[p], m.metadata)
                              THEN <<Change(p, "Modified")>> ELSE <<>>]
            ELSE [ok |-> TRUE, changes |-> <<Change(p, "Created")>>]

\* The loop of perform_scan_optimized over the paths against the snapshot of
\* the cache: the changes and the number of probes that failed.
RECURSIVE ScanFiles(_, _, _, _)
ScanFiles(files, cache, disk, failing) ==
    IF files = <<>> THEN [changes |-> <<>>, scan_errors |-> 0]
    ELSE LET p == Head(files)
             r == scan_single_file(p, disk[p], cache, p \in failing)
             rest == ScanFiles(Tail(files), cache, disk, failing)
         IN [changes |-> r.changes \o rest.changes,
             scan_errors |-> (IF r.ok THEN 0 ELSE 1) + rest.scan_errors]

\* Variant: the fingerprint of a deleted path is kept.
RECURSIVE UpdateCache_keep_deleted(_, _, _)
UpdateCache_keep_deleted(changes, cache, disk) ==
    IF changes = <<>> THEN cache
    ELSE LET c == Head(changes)
             m == get_file_metadata_optimized(disk[c.file_path], FALSE)
         IN UpdateCache_keep_deleted(Tail(changes),
                        IF c.change_type = "Deleted" THEN cache
                        ELSE IF m.ok THEN Insert(cache, c.file_path, m.metadata)
                        ELSE cache,
                        disk)

\* The batch update of the cache for the changes of a scan.
RECURSIVE UpdateCache(_, _, _)
UpdateCache(changes, cache, disk) ==
    IF changes = <<>> THEN cache
    ELSE LET c == Head(changes)
             m == get_file_metadata_optimized(disk[c.file_path], FALSE)
         IN UpdateCache(Tail(changes),
                        IF c.change_type = "Deleted" THEN Remove(cache, c.file_path)
                        ELSE IF m.ok THEN Insert(cache, c.file_path, m.metadata)
                        ELSE cache,
                        disk)

\* The probes that fail are logged; the result is Ok with the changes.
perform_scan_optimized(files, cache, disk, failing) ==
    LET s == ScanFiles(files, cache, disk, failing)
    IN [ok |-> TRUE, changes |-> s.changes, scan_errors |-> s.scan_errors,
        cache |-> UpdateCache(s.changes, cache, disk)]

\* The scan of force_scan: each path against the cache as updated so far.
RECURSIVE perform_scan(_, _, _)
perform_scan(files, cache, disk) ==
    IF files = <<>> THEN [changes |-> <<>>, cache |-> cache]
    ELSE LET p == Head(files)
             f == disk[p]
             m == MonitorService_get_file_metadata(f)
             one ==
                 IF ~path_exists(f)
                 THEN IF p \in DOMAIN cache
                      THEN [changes |-> <<Change(p, "Deleted")>>, cache |-> Remove(cache, p)]
                      ELSE [changes |-> <<>>, cache |-> cache]
                 ELSE IF ~m.ok THEN [changes |-> <<>>, cache |-> cache]
                 ELSE IF p \in DOMAIN cache
                 THEN IF compare_metadata(cache[p], m.metadata)
                      THEN [changes |-> <<Change(p, "Modified")>>,
                            cache |-> Insert(cache, p, m.metadata)]
                      ELSE [changes |-> <<>>, cache |-> cache]
                 ELSE [changes |-> <<Change(p, "Created")>>,
                       cache |-> Insert(cache, p, m.metadata)]
             rest == perform_scan(Tail(files), one.cache, disk)
         IN [changes |-> one.changes \o rest.changes, cache |-> rest.cache]

Min(a, b) == IF a <= b THEN a ELSE b

\* A poll task: the watch list it was spawned with, its error counter, the
\* seconds of the sleep that ended its last iteration, and the number of its
\* latest iterations in a row in which a probe failed.
\* scanning and pending: the task is between the loop over its paths and the
\* batch update of the cache, with the changes of the loop.
NewTask(files) ==
    [files |-> files, consecutive_errors |-> 0, alive |-> TRUE, backoff |-> 0,
     failed_ticks |-> 0, scanning |-> FALSE, pending |-> <<>>]

MCall(op, path, task, changes, callback) ==
    [op |-> op, path |-> path, task |-> task, changes |-> changes, callback |-> callback]

\* Variant: the callback is called with the changes of every scan.
poll_iteration_always_calls(task, running, cache, disk, failing) ==
    IF ~running
    THEN [task |-> [task EXCEPT !.alive = FALSE, !.backoff = 0], is_running |-> running,
          cache |-> cache, changes |-> <<>>, callback |-> <<>>, scanned |-> FALSE]
    ELSE LET r == perform_scan_optimized(task.files, cache, disk, failing)
         IN [task |-> [task EXCEPT !.consecutive_errors = 0, !.backoff = 0],
             is_running |-> running, cache |-> r.cache, changes |-> r.changes,
             callback |-> <<r.changes>>, scanned |-> TRUE]

\* One iteration of the loop of the spawned task, after timer.tick(): the
\* task, the running flag, the cache, the changes, the arguments of the calls
\* of the callback and whether it scanned.
poll_iteration(task, running, cache, disk, failing) ==
    IF ~running
    THEN [task |-> [task EXCEPT !.alive = FALSE, !.backoff = 0], is_running |-> running,
          cache |-> cache, changes |-> <<>>, callback |-> <<>>, scanned |-> FALSE]
    ELSE LET r == perform_scan_optimized(task.files, cache, disk, failing)
             probes == IF r.scan_errors > 0
                       THEN Min(MaxScanErrors, task.failed_ticks + 1) ELSE 0
             consecutive_errors == task.consecutive_errors + 1
         IN IF r.ok
            THEN [task |-> [task EXCEPT !.consecutive_errors = 0, !.backoff = 0,
                                        !.failed_ticks = probes],
                  is_running |-> running, cache |-> r.cache, changes |-> r.changes,
                  callback |-> IF r.changes # <<>> THEN <<r.changes>> ELSE <<>>,
                  scanned |-> TRUE]
            ELSE IF consecutive_errors >= MaxScanErrors
            THEN [task |-> [task EXCEPT !.consecutive_errors = consecutive_errors,
                                        !.alive = FALSE, !.backoff = 0,
                                        !.failed_ticks = probes],
                  is_running |-> FALSE, cache |-> cache, changes |-> <<>>,
                  callback |-> <<>>, scanned |-> TRUE]
            ELSE [task |-> [task EXCEPT !.consecutive_errors = consecutive_errors,
                                        !.backoff = Min(BackoffCap,
                                                        BackoffStep * consecutive_errors),
                                        !.failed_ticks = probes],
                  is_running |-> running, cache |-> cache, changes |-> <<>>,
                  callback |-> <<>>, scanned |-> TRUE]

add_path(p) ==
    LET a == add_file_to_monitor(monitored_files, file_metadata, p, mfiles[p])
    IN /\ monitored_files' = a.files
       /\ file_metadata' = a.cache
       /\ mlast' = MCall("add", p, 0, <<>>, <<>>)
       /\ UNCHANGED <<storeVars, setVars, lockVars, mfiles, is_running, tasks>>

start_monitoring ==
    /\ Len(tasks) < MaxTasks
    /\ file_metadata' = initialize_file_metadata(monitored_files, file_metadata, mfiles)
    /\ is_running' = TRUE
    /\ tasks' = Append(tasks, NewTask(monitored_files))
    /\ mlast' = MCall("start", 0, 0, <<>>, <<>>)
    /\ UNCHANGED <<storeVars, setVars, lockVars, mfiles, monitored_files>>

\* Variant: the running flag is left as it is.
stop_monitoring_keep_running ==
    /\ file_metadata' = optimize_metadata_cache(file_metadata, monitored_files)
    /\ mlast' = MCall("stop", 0, 0, <<>>, <<>>)
    /\ UNCHANGED <<storeVars, setVars, lockVars, mfiles, monitored_files, is_running, tasks>>

stop_monitoring ==
    /\ is_running' = FALSE
    /\ file_metadata' = optimize_metadata_cache(file_metadata, monitored_files)
    /\ mlast' = MCall("stop", 0, 0, <<>>, <<>>)
    /\ UNCHANGED <<storeVars, setVars, lockVars, mfiles, monitored_files, tasks>>

force_scan ==
    LET r == perform_scan(monitored_files, file_metadata, mfiles)
    IN /\ file_metadata' = r.cache
       /\ mlast' = MCall("force_scan", 0, 0, r.changes, <<>>)
       /\ UNCHANGED <<storeVars, setVars, lockVars, mfiles, monitored_files, is_running, tasks>>

force_optimize_cache ==
    /\ file_metadata' = optimize_metadata_cache(file_metadata, monitored_files)
    /\ mlast' = MCall("optimize", 0, 0, <<>>, <<>>)
    /\ UNCHANGED <<storeVars, setVars, lockVars, mfiles, monitored_files, is_running, tasks>>

clear_monitored_files ==
    /\ monitored_files' = <<>>
    /\ file_metadata' = NoMetadata
    /\ mlast' = MCall("clear", 0, 0, <<>>, <<>>)
    /\ UNCHANGED <<storeVars, setVars, lockVars, mfiles, is_running, tasks>>

\* The timer of task i fires.  failing: the paths whose probe fails.
PollTick(i, failing) ==
    /\ tasks[i].alive
    /\ LET r == poll_iteration(tasks[i], is_running, file_metadata, mfiles, failing)
       IN /\ tasks' = [tasks EXCEPT ![i] = r.task]
          /\ is_running' = r.is_running
          /\ file_metadata' = r.cache
          /\ mlast' = MCall(IF r.scanned THEN "tick" ELSE "exit", 0, i, r.changes,
                            r.callback)
    /\ UNCHANGED <<storeVars, setVars, lockVars, mfiles, monitored_files>>

\* The tick of task i in two steps, between which other programs and other
\* calls run: the loop over the paths against a copy of the cache, then the
\* batch update of the cache and the callback.
TickScan(i) ==
    /\ tasks[i].alive
    /\ ~tasks[i].scanning
    /\ is_running
    /\ LET s == ScanFiles(tasks[i].files, file_metadata, mfiles, {})
       IN /\ tasks' = [tasks EXCEPT ![i].scanning = TRUE, ![i].pending = s.changes]
          /\ mlast' = MCall("scan", 0, i, s.changes, <<>>)
    /\ UNCHANGED <<storeVars, setVars, lockVars, mfiles, monitored_files, file_metadata,
                   is_running>>

TickUpdate(i) ==
    /\ tasks[i].alive
    /\ tasks[i].scanning
    /\ LET changes == tasks[i].pending
       IN /\ file_metadata' = UpdateCache(changes, file_metadata, mfiles)
          /\ tasks' = [tasks EXCEPT ![i].scanning = FALSE, ![i].pending = <<>>,
                                    ![i].consecutive_errors = 0]
          /\ mlast' = MCall("update", 0, i, changes,
                            IF changes # <<>> THEN <<changes>> ELSE <<>>)
    /\ UNCHANGED <<storeVars, setVars, lockVars, mfiles, monitored_files, is_running>>

\* The timer of task i fires after the flag was cleared.
TickExit(i) ==
    /\ ~is_running
    /\ ~tasks[i].scanning
    /\ PollTick(i, {})

\* Other programs write and remove the watched files.
MonitoredWrite(p, c) ==
    /\ mfiles' = [mfiles EXCEPT ![p] = MFile(now, c.size, c.checksum)]
    /\ mlast' = MCall("external", p, 0, <<>>, <<>>)
    /\ UNCHANGED <<storeVars, setVars, lockVars, monitored_files, file_metadata, is_running,
                   tasks>>

MonitoredDelete(p) ==
    /\ path_exists(mfiles[p])
    /\ mfiles' = [mfiles EXCEPT ![p] = Missing]
    /\ mlast' = MCall("external", p, 0, <<>>, <<>>)
    /\ UNCHANGED <<storeVars, setVars, lockVars, monitored_files, file_metadata, is_running,
                   tasks>>

\* MonitorService::new
NewMonitor ==
    /\ monitored_files = <<>>
    /\ file_metadata = NoMetadata
    /\ is_running = FALSE
    /\ tasks = <<>>
    /\ mlast = MCall("new", 0, 0, <<>>, <<>>)

\* The store without a monitor.
NoMonitor ==
    /\ mfiles = [p \in {} |-> Missing]
    /\ NewMonitor

\* A store that is constructed and not used.
IdleStore ==
    /\ now = 0
    /\ claude_dir \in ClaudeDirs
    /\ live = File(DarkM1, 0)
    /\ profileFiles = [n \in DirStems |-> NoFile]
    /\ backups = {}
    /\ tmpExists = FALSE
    /\ profiles = <<>>
    /\ profile_cache = EmptyCache
    /\ default_settings_cache = NoCache
    /\ last = Call("new", "", OkResult, NoFile, <<>>)
    /\ stProfile = Garbage
    /\ stResult = "none"

(***************************************************************************)
(* The poll interval: the settings service that persists it and the        *)
(* monitor that polls with it.  The content of the settings file is given  *)
(* by the settings value it is the serialisation of.                       *)
(***************************************************************************)
MinInterval == 1

MaxInterval == 60

DefaultInterval == 5

\* UserSettings::default()
default_settings ==
    [monitor_interval_minutes |-> DefaultInterval, auto_start_monitoring |-> TRUE,
     language |-> "None", show_notifications |-> TRUE]

validate_monitor_interval(minutes) ==
    IF minutes \in MinInterval..MaxInterval
    THEN OkResult
    ELSE Err("SettingsError", "Invalid monitor interval")

is_supported_language(language) == language \in {"en", "zh", "zh-CN", "zh-TW"}

validate_settings(settings) ==
    LET v == validate_monitor_interval(settings.monitor_interval_minutes)
    IN IF ~v.ok THEN v
       ELSE IF settings.language # "None" /\ ~is_supported_language(settings.language)
            THEN Err("SettingsError", "Unsupported language")
            ELSE OkResult

Written(settings) == [exists |-> TRUE, settings |-> settings]

NotWritten == [exists |-> FALSE, settings |-> default_settings]

\* The file operations of save_settings that fail.
SaveFaults == {"none", "tmp_write", "rename"}

\* Returns the result and the settings file with its temporary file.
save_settings(settings, file, fault) ==
    LET v == validate_settings(settings)
    IN IF ~v.ok THEN [result |-> v, file |-> file]
       ELSE IF fault = "tmp_write"
            THEN [result |-> Err("SettingsError", "Failed to write temporary settings file"),
                  file |-> file]
       ELSE IF fault = "rename"
            THEN [result |-> Err("SettingsError", "Failed to save settings file"),
                  file |-> [file EXCEPT !.tmp = Written(settings)]]
       ELSE [result |-> OkResult,
             file |-> [saved |-> Written(settings), tmp |-> NotWritten]]

\* A call that sets the interval, with the stored interval, the persisted
\* settings and the running flag before it.
SCall(op, minutes, result, interval, persisted, running) ==
    [op |-> op, minutes |-> minutes, result |-> result, interval |-> interval,
     persisted |-> persisted, running |-> running]

update_monitor_interval(minutes, fault) ==
    LET v == validate_monitor_interval(minutes)
        changed == [current_settings EXCEPT !.monitor_interval_minutes = minutes]
        s == save_settings(changed, settings_file, fault)
    IN /\ current_settings' = IF v.ok THEN changed ELSE current_settings
       /\ settings_file' = IF v.ok THEN s.file ELSE settings_file
       /\ slast' = SCall("update_monitor_interval", minutes, IF v.ok THEN s.result ELSE v,
                         current_settings.monitor_interval_minutes, settings_file.saved,
                         is_running)
       /\ UNCHANGED <<storeVars, monVars, lockVars, monitor_interval_minutes>>

\* Returns the running flag and the fingerprint cache after stop_monitoring.
restart_monitoring(cache, files) ==
    [is_running |-> FALSE, file_metadata |-> optimize_metadata_cache(cache, files)]

\* Variant: the monitor is not restarted.
set_monitor_interval_keep_running(minutes) ==
    LET valid == minutes \in MinInterval..MaxInterval
    IN /\ monitor_interval_minutes' = IF valid THEN minutes ELSE monitor_interval_minutes
       /\ mlast' = MCall("set_interval", 0, 0, <<>>, <<>>)
       /\ slast' = SCall("set_monitor_interval", minutes,
                         IF valid THEN OkResult
                         ELSE Err("MonitorError", "Invalid monitor interval"),
                         monitor_interval_minutes, settings_file.saved, is_running)
       /\ UNCHANGED <<storeVars, lockVars, mfiles, monitored_files, tasks,
                      current_settings,
                      settings_file, is_running, file_metadata>>

set_monitor_interval(minutes) ==
    LET valid == minutes \in MinInterval..MaxInterval
        restart == valid /\ monitor_interval_minutes # minutes /\ is_running
        r == restart_monitoring(file_metadata, monitored_files)
    IN /\ monitor_interval_minutes' = IF valid THEN minutes ELSE monitor_interval_minutes
       /\ is_running' = IF restart THEN r.is_running ELSE is_running
       /\ file_metadata' = IF restart THEN r.file_metadata ELSE file_metadata
       /\ mlast' = MCall("set_interval", 0, 0, <<>>, <<>>)
       /\ slast' = SCall("set_monitor_interval", minutes,
                         IF valid THEN OkResult
                         ELSE Err("MonitorError", "Invalid monitor interval"),
                         monitor_interval_minutes, settings_file.saved, is_running)
       /\ UNCHANGED <<storeVars, lockVars, mfiles, monitored_files, tasks,
                      current_settings,
                      settings_file>>

\* SettingsService::new in a directory without a settings file, and the
\* monitor constructed with the interval of the settings.
NewSettings ==
    /\ current_settings = default_settings
    /\ settings_file = [saved |-> Written(default_settings), tmp |-> NotWritten]
    /\ monitor_interval_minutes = default_settings.monitor_interval_minutes
    /\ slast = SCall("new", DefaultInterval, OkResult, DefaultInterval,
                     Written(default_settings), FALSE)

(***************************************************************************)
(* The store specification: a directory with a live settings file and      *)
(* three profile files, a store constructed on it (ConfigService::new).    *)
(***************************************************************************)
ProfileDirs ==
    {[n \in DirStems |->
        CASE n = "work" -> File(DarkM2, 0)
          [] n = "home" -> File(h, 0)
          [] n = "list" -> l
          [] OTHER      -> NoFile] :
     h \in {LightM1}, l \in {File(ArrayText, 0)}}

NewStore ==
    /\ profiles = <<>>
    /\ profile_cache = EmptyCache
    /\ default_settings_cache = NoCache
    /\ last = Call("new", "", OkResult, NoFile, <<>>)

Init ==
    /\ now = 0
    /\ claude_dir \in ClaudeDirs
    /\ live \in {File(DarkM1, 0)}
    /\ profileFiles \in ProfileDirs
    /\ backups = {}
    /\ tmpExists = FALSE
    /\ NewStore
    /\ stProfile = Garbage
    /\ stResult = "none"
    /\ NoMonitor
    /\ NewSettings
    /\ NoThreads

Switch == \E name \in SwitchNames : switch_profile(name, "none", "none")

SwitchFaulty == \E name \in SwitchNames, fault \in Faults, rfault \in RestoreFaults :
                    switch_profile(name, fault, rfault)

Edit == \E c \in LiveContents : ExternalWrite(c)

Clock == Tick(MaxNow)

Next == scan_profiles \/ refresh_profile_status \/ Switch \/ Edit \/ ExternalDelete \/ Clock

Spec == Init /\ [][Next]_vars

(***************************************************************************)
(* The same store with file operations of the switch that fail.            *)
(***************************************************************************)
Corrupt == ExternalWrite(Garbage)

NextFaults == scan_profiles \/ SwitchFaulty \/ Corrupt

SpecFaults == Init /\ [][NextFaults]_vars


(***************************************************************************)
(* Backup retention: switches without faults while the clock advances.     *)
(***************************************************************************)
ClockBackups == Tick(MaxNowBackups)

NextBackups == scan_profiles \/ Switch \/ ClockBackups

SpecBackups == Init /\ [][NextBackups]_vars

(***************************************************************************)
(* The status computation over all pairs of JSON objects whose fields are  *)
(* strings or nested objects.                                              *)
(***************************************************************************)
FieldValues == {Str("a"), Str("b"),
                Obj([k \in {"model"} |-> Str("a")]), Obj([k \in {"model"} |-> Str("b")])}

AllObjects == UNION {[D -> FieldValues] : D \in SUBSET Keys}

WrittenOrder == <<"theme", "model">>

ObjectTexts == {ObjText(MembersInOrder(f, WrittenOrder), FALSE) : f \in AllObjects}

InitStatus ==
    /\ now = 0
    /\ claude_dir \in ClaudeDirs
    /\ live \in {File(c, 0) : c \in ObjectTexts}
    /\ profileFiles = [n \in DirStems |-> NoFile]
    /\ backups = {}
    /\ tmpExists = FALSE
    /\ NewStore
    /\ stProfile \in ObjectTexts
    /\ stResult = "none"
    /\ NoMonitor
    /\ NewSettings
    /\ NoThreads

status_of ==
    /\ stResult = "none"
    /\ stResult' = get_detailed_profile_status(stProfile, live)
    /\ UNCHANGED <<monVars, setVars, lockVars, now, claude_dir, live, profileFiles, backups,
                   tmpExists, profiles,
                   profile_cache, default_settings_cache, last, stProfile>>

NextStatus == status_of

SpecStatus == InitStatus /\ [][NextStatus]_vars

(***************************************************************************)
(* The scan over a directory other programs write to: profile files that   *)
(* are JSON objects, other JSON, not JSON or not text, a file whose stem   *)
(* is empty and one whose stem is too long.  Each write advances the clock,*)
(* so it advances the modification time of the file it writes.             *)
(***************************************************************************)
ProfileContents == {DarkM2, ArrayText, Garbage, Binary}

WrittenStems == {"home", "work"}

ProfileWrite(n, c) ==
    /\ now < MaxNowScan
    /\ now' = now + 1
    /\ profileFiles' = [profileFiles EXCEPT ![n] = File(c, now + 1)]
    /\ last' = Call("external", "", OkResult, NoFile, <<>>)
    /\ UNCHANGED <<monVars, setVars, lockVars, claude_dir, live, backups, tmpExists, profiles,
                   profile_cache, default_settings_cache, stProfile, stResult>>

ProfileDelete(n) ==
    /\ profileFiles[n].exists
    /\ profileFiles' = [profileFiles EXCEPT ![n] = NoFile]
    /\ last' = Call("external", "", OkResult, NoFile, <<>>)
    /\ UNCHANGED <<monVars, setVars, lockVars, now, claude_dir, live, backups, tmpExists,
                   profiles,
                   profile_cache, default_settings_cache, stProfile, stResult>>

InitScan ==
    /\ now = 0
    /\ claude_dir \in ClaudeDirs
    /\ live = File(DarkM1, 0)
    /\ profileFiles = [n \in DirStems |->
                          CASE n = "home" -> File(LightM1, 0)
                            [] n = "list" -> File(ArrayText, 0)
                            [] n = "work" -> File(Binary, 0)
                            [] OTHER      -> File(DarkM1, 0)]
    /\ backups = {}
    /\ tmpExists = FALSE
    /\ NewStore
    /\ stProfile = Garbage
    /\ stResult = "none"
    /\ NoMonitor
    /\ NewSettings
    /\ NoThreads

EditProfile == \E n \in WrittenStems, c \in ProfileContents : ProfileWrite(n, c)

DeleteProfile == \E n \in WrittenStems : ProfileDelete(n)

NextScan == scan_profiles \/ EditProfile \/ DeleteProfile

SpecScan == InitScan /\ [][NextScan]_vars

(***************************************************************************)
(* The monitor on one path that other programs write and remove.           *)
(***************************************************************************)
MonitorPaths == {1}

\* Contents by size and CRC-32: two of the same size, one longer.
MonitoredContents == {[size |-> 2, checksum |-> 11], [size |-> 2, checksum |-> 12],
                      [size |-> 3, checksum |-> 13]}

InitMonitor ==
    /\ IdleStore
    /\ NewSettings
    /\ NoThreads
    /\ mfiles = [p \in MonitorPaths |-> MFile(0, 2, 11)]
    /\ NewMonitor

AddFile == \E p \in MonitorPaths : add_path(p)

Poll == \E i \in 1..Len(tasks) : PollTick(i, {})

MonitorEdit == \E p \in MonitorPaths, c \in MonitoredContents : MonitoredWrite(p, c)

MonitorDelete == \E p \in MonitorPaths : MonitoredDelete(p)

ClockMonitor == Tick(MaxNowMonitor)

NextMonitor ==
    \/ AddFile \/ start_monitoring \/ stop_monitoring \/ force_scan \/ Poll
    \/ MonitorEdit \/ MonitorDelete \/ ClockMonitor

SpecMonitor == InitMonitor /\ [][NextMonitor]_vars

\* Starting and stopping while the watched file is written.  The spawned
\* tasks are scheduled: a timer that can fire does fire.
NextStop == AddFile \/ start_monitoring \/ stop_monitoring \/ Poll \/ MonitorEdit

SpecStop == InitMonitor /\ [][NextStop]_vars /\ WF_vars(Poll)

(***************************************************************************)
(* The monitor started on two watched files while probes of them fail.     *)
(***************************************************************************)
ProbePaths == {1, 2}

InitProbe ==
    /\ IdleStore
    /\ NewSettings
    /\ NoThreads
    /\ mfiles = [p \in ProbePaths |-> MFile(0, 2, 11)]
    /\ monitored_files = <<1, 2>>
    /\ file_metadata = NoMetadata
    /\ is_running = FALSE
    /\ tasks = <<>>
    /\ mlast = MCall("add", 2, 0, <<>>, <<>>)

PollFaulty == \E i \in 1..Len(tasks), failing \in SUBSET ProbePaths : PollTick(i, failing)

ProbeEdit == \E c \in MonitoredContents : MonitoredWrite(1, c)

NextProbe == start_monitoring \/ PollFaulty \/ ProbeEdit

SpecProbe == InitProbe /\ [][NextProbe]_vars

(***************************************************************************)
(* The watch list: paths added one after the other.  Path 1 is a file of   *)
(* exactly 10 MiB; the paths below 1 are a missing path, a directory and a *)
(* file one byte above 10 MiB.                                             *)
(***************************************************************************)
MissingPath == 0

DirectoryPath == 0 - 1

OversizePath == 0 - 2

WatchPaths == OversizePath..MaxPaths

InitWatch ==
    /\ IdleStore
    /\ NewSettings
    /\ NoThreads
    /\ mfiles = [p \in WatchPaths |->
                    CASE p = MissingPath   -> Missing
                      [] p = DirectoryPath -> Directory
                      [] p = OversizePath  -> MFile(0, MaxFileSize + 1, 11)
                      [] p = 1             -> MFile(0, MaxFileSize, 11)
                      [] OTHER             -> MFile(0, 2, 11)]
    /\ NewMonitor

\* The path added next: the first or the last of the list, the next path
\* not added before, or one of the paths that are not acceptable.
AddChoices ==
    {p \in WatchPaths :
        \/ p <= 0
        \/ monitored_files # <<>> /\ p = Head(monitored_files)
        \/ monitored_files # <<>> /\ p = monitored_files[Len(monitored_files)]
        \/ monitored_files = <<>> /\ p = 1
        \/ monitored_files # <<>> /\ p = monitored_files[Len(monitored_files)] + 1}

AddNext == \E p \in AddChoices : add_path(p)

NextWatch == AddNext \/ force_scan

SpecWatch == InitWatch /\ [][NextWatch]_vars

(***************************************************************************)
(* Status queries on a store whose live settings file other programs       *)
(* rewrite, with text that is no JSON and with bytes that are no text, and *)
(* remove.                                                                 *)
(***************************************************************************)
QueryContents == {DarkM2, LightM1, ArrayText, Garbage, Binary}

ProfileStatus(name) ==
    /\ stResult' = get_profile_status(profiles, name, live)
    /\ stProfile' = Garbage
    /\ last' = Call("status", name, OkResult, live, <<>>)
    /\ UNCHANGED <<monVars, setVars, lockVars, now, claude_dir, live, profileFiles, backups,
                   tmpExists,
                   profiles, profile_cache, default_settings_cache>>

DetailedStatus(c) ==
    /\ stResult' = get_detailed_profile_status(c, live)
    /\ stProfile' = c
    /\ last' = Call("detailed_status", "", OkResult, live, <<>>)
    /\ UNCHANGED <<monVars, setVars, lockVars, now, claude_dir, live, profileFiles, backups,
                   tmpExists,
                   profiles, profile_cache, default_settings_cache>>

QueryStatus == \E name \in SwitchNames : ProfileStatus(name)

QueryDetailed == \E c \in QueryContents : DetailedStatus(c)

QueryEdit == \E c \in QueryContents : ExternalWrite(c)

NextQuery == scan_profiles \/ QueryStatus \/ QueryDetailed \/ QueryEdit \/ ExternalDelete

SpecQuery == Init /\ [][NextQuery]_vars

(***************************************************************************)
(* The content caches across their time to live.  Other programs replace   *)
(* the live settings file and a profile file, by a write or by the rename  *)
(* of a file written earlier, which keeps that file's modification time.   *)
(* The clock visits the seconds around the time to live.                   *)
(***************************************************************************)
CacheTimes == {0, 1, CacheTtl - 1, CacheTtl, MaxNowCache}

CacheClock ==
    /\ \E t \in CacheTimes : t > now /\ now' = t
    /\ UNCHANGED <<monVars, setVars, lockVars, claude_dir, live, profileFiles, backups,
                   tmpExists,
                   profiles, profile_cache, default_settings_cache, last, stProfile, stResult>>

LiveReplace(c, m) ==
    /\ m <= now
    /\ live' = File(c, m)
    /\ last' = Call("external", "", OkResult, NoFile, <<>>)
    /\ UNCHANGED <<monVars, setVars, lockVars, now, claude_dir, profileFiles, backups,
                   tmpExists,
                   profiles, profile_cache, default_settings_cache, stProfile, stResult>>

ProfileReplace(n, c, m) ==
    /\ m <= now
    /\ profileFiles' = [profileFiles EXCEPT ![n] = File(c, m)]
    /\ last' = Call("external", "", OkResult, NoFile, <<>>)
    /\ UNCHANGED <<monVars, setVars, lockVars, now, claude_dir, live, backups, tmpExists,
                   profiles, profile_cache, default_settings_cache, stProfile, stResult>>

ReplaceLive == \E m \in CacheTimes : LiveReplace(DarkM2, m)

ReplaceProfile == \E m \in CacheTimes : ProfileReplace("work", LightM1, m)

InitCache ==
    /\ now = 0
    /\ claude_dir \in ClaudeDirs
    /\ live = File(DarkM1, 0)
    /\ profileFiles = [n \in DirStems |-> IF n = "work" THEN File(DarkM2, 0) ELSE NoFile]
    /\ backups = {}
    /\ tmpExists = FALSE
    /\ NewStore
    /\ stProfile = Garbage
    /\ stResult = "none"
    /\ NoMonitor
    /\ NewSettings
    /\ NoThreads

NextCache ==
    \/ scan_profiles \/ refresh_profile_status \/ ReplaceLive \/ ReplaceProfile \/ CacheClock

SpecCache == InitCache /\ [][NextCache]_vars

(***************************************************************************)
(* Change detection over pairs of a cached fingerprint and a file: one     *)
(* watched path with a fingerprint in the cache and a running task.  The   *)
(* checksum 0 stands for a checksum that was not computed.                 *)
(***************************************************************************)
CompareSizes == {2, 3, ChecksumLimit + 1}

CompareSums == {11, 12}

Fingerprints ==
    {[modified_time |-> m, checksum |-> c, size |-> sz] :
        m \in {0, 1}, c \in CompareSums \cup {0}, sz \in CompareSizes}

InitCompare ==
    /\ IdleStore
    /\ NewSettings
    /\ NoThreads
    /\ mfiles \in {[p \in MonitorPaths |-> MFile(m, sz, c)] :
                      m \in {0, 1}, sz \in CompareSizes, c \in CompareSums}
    /\ monitored_files = <<1>>
    /\ file_metadata \in {[p \in MonitorPaths |-> fp] : fp \in Fingerprints}
    /\ is_running = TRUE
    /\ tasks = <<NewTask(<<1>>)>>
    /\ mlast = MCall("start", 0, 0, <<>>, <<>>)

NextCompare == force_scan \/ Poll

SpecCompare == InitCompare /\ [][NextCompare]_vars

(***************************************************************************)
(* The events of a tick: two watched files that other programs write and   *)
(* remove while the monitor polls.                                         *)
(***************************************************************************)
EventsEdit == \E p \in ProbePaths, c \in MonitoredContents : MonitoredWrite(p, c)

EventsDelete == \E p \in ProbePaths : MonitoredDelete(p)

NextEvents == start_monitoring \/ stop_monitoring \/ Poll \/ EventsEdit \/ EventsDelete

SpecEvents == InitProbe /\ [][NextEvents]_vars

(***************************************************************************)
(* The tick in steps: between the loop over the paths and the batch update *)
(* the watched file is written and removed, force_scan runs, and the tasks *)
(* of two calls of start_monitoring interleave.                            *)
(***************************************************************************)
ScanPaths == \E i \in 1..Len(tasks) : TickScan(i)

UpdatePaths == \E i \in 1..Len(tasks) : TickUpdate(i)

ExitTask == \E i \in 1..Len(tasks) : TickExit(i)

NextTick ==
    \/ AddFile \/ start_monitoring \/ stop_monitoring \/ force_scan
    \/ ScanPaths \/ UpdatePaths \/ ExitTask \/ MonitorEdit \/ MonitorDelete

SpecTick == InitMonitor /\ [][NextTick]_vars

(***************************************************************************)
(* Setting the interval, in the settings service while its file operations *)
(* fail and on a monitor that is started and stopped.                      *)
(***************************************************************************)
IntervalInputs == {0, 1, 15, 60, 61}

SetInterval == \E minutes \in IntervalInputs : set_monitor_interval(minutes)

UpdateInterval == \E minutes \in IntervalInputs, fault \in SaveFaults :
                      update_monitor_interval(minutes, fault)

NextSettings == start_monitoring \/ stop_monitoring \/ SetInterval \/ UpdateInterval

SpecSettings == InitMonitor /\ [][NextSettings]_vars

\* Setting the interval of a monitor that polls a watched file.
NextInterval == AddFile \/ start_monitoring \/ Poll \/ MonitorEdit \/ SetInterval

SpecInterval == InitMonitor /\ [][NextInterval]_vars

(***************************************************************************)
(* The fingerprint cache while paths are added to the watch list, the list *)
(* is cleared and tasks started earlier keep ticking.                      *)
(***************************************************************************)
InitPrune ==
    /\ IdleStore
    /\ NewSettings
    /\ NoThreads
    /\ mfiles = [p \in ProbePaths |-> MFile(0, 2, 11)]
    /\ NewMonitor

PruneAdd == \E p \in ProbePaths : add_path(p)

NextPrune ==
    \/ PruneAdd \/ clear_monitored_files \/ start_monitoring \/ stop_monitoring
    \/ force_optimize_cache \/ Poll

SpecPrune == InitPrune /\ [][NextPrune]_vars

(***************************************************************************)
(* Status refreshes of a scanned store while other programs write, add and *)
(* remove profile files and rewrite the live settings file.                *)
(***************************************************************************)
RefreshEdit == \E n \in WrittenStems, c \in {DarkM2, Garbage} : ProfileWrite(n, c)

RefreshDelete == ProfileDelete("list")

RefreshLive == \E c \in {LightM1, Garbage} : ExternalWrite(c)

NextRefresh ==
    \/ scan_profiles \/ refresh_profile_status \/ RefreshEdit \/ RefreshDelete
    \/ RefreshLive

SpecRefresh == InitScan /\ [][NextRefresh]_vars

(***************************************************************************)
(* Scans while the Claude directory is removed, replaced by a file or made *)
(* unreadable, and profile files are written and removed.                  *)
(***************************************************************************)
ScanDirectory == \E dir \in DirStates : scan_profiles_in(dir)

NextScanDir == ScanDirectory \/ EditProfile \/ DeleteProfile

SpecScanDir == InitScan /\ [][NextScanDir]_vars

(***************************************************************************)
(* The application: the thread that initializes it, the poll task calling  *)
(* the change callback, and the listeners of the tray events, on the       *)
(* mutexes of the store, the tray and the translations.                    *)
(***************************************************************************)
Handlers == {"initialize", "callback", "profile_switch_requested", "tray_icon_hover"}

Mutexes == {"config", "tray", "i18n"}

InitHandlers ==
    /\ now = 0
    /\ claude_dir \in ClaudeDirs
    /\ live \in {File(DarkM1, 0)}
    /\ profileFiles \in ProfileDirs
    /\ backups = {}
    /\ tmpExists = FALSE
    /\ NewStore
    /\ stProfile = Garbage
    /\ stResult = "none"
    /\ NoMonitor
    /\ NewSettings
    /\ pc = [h \in Handlers |-> IF h = "initialize" THEN 1 ELSE 0]
    /\ held = [m \in Mutexes |-> "none"]

\* initialize is past the instruction.
Past(instr) == \E k \in 1..Len(initialize) : initialize[k] = instr /\ pc["initialize"] > k

HandlerLock == \E h \in Handlers : Lock(h)

HandlerUnlock == \E h \in Handlers : Unlock(h)

HandlerStep == \E h \in Handlers : Step(h)

HandlerJump == \E h \in Handlers : Jump(h)

HandlerEnd == \E h \in Handlers : End(h)

\* A tick of the poll task finds changes.
ChangeDetected == Past(I("step", "start_monitoring")) /\ Begin("callback")

EventArrives ==
    /\ Past(I("step", "listen"))
    /\ \E h \in {"profile_switch_requested", "tray_icon_hover"} : Begin(h)

CallScan == Calling("scan") /\ \E dir \in {"directory", "missing"} : scan_profiles_in(dir)

CallRefresh == Calling("refresh") /\ refresh_profile_status

CallSwitch ==
    /\ Calling("switch")
    /\ \E name \in {"work", "home", "ghost"} : switch_profile(name, "none", "none")

NextHandlers ==
    \/ HandlerLock \/ HandlerUnlock \/ HandlerStep \/ HandlerJump \/ HandlerEnd
    \/ ChangeDetected \/ EventArrives \/ CallScan \/ CallRefresh \/ CallSwitch

SpecHandlers == InitHandlers /\ [][NextHandlers]_vars

(***************************************************************************)
(* The lock of the fingerprint cache: a poll task at its tick, a call of   *)
(* force_scan and a call of start_monitoring.                              *)
(***************************************************************************)
CacheThreads == {"tick", "force_scan", "start_monitoring"}

InitCacheLock ==
    /\ IdleStore
    /\ NewSettings
    /\ mfiles = [p \in ProbePaths |-> MFile(0, 2, 11)]
    /\ NewMonitor
    /\ pc = [h \in CacheThreads |-> 0]
    /\ held = [m \in {"file_metadata"} |-> "none"]

CacheBegin == \E h \in CacheThreads : Begin(h)

CacheLock == \E h \in CacheThreads : Lock(h)

CacheUnlock == \E h \in CacheThreads : Unlock(h)

CacheStep == \E h \in CacheThreads : Step(h)

CacheTest == \E h \in CacheThreads : Test(h)

NextCacheLock == CacheBegin \/ CacheLock \/ CacheUnlock \/ CacheStep \/ CacheTest

SpecCacheLock == InitCacheLock /\ [][NextCacheLock]_vars

(***************************************************************************)
(* The monitor stopped and started again: start_monitoring is called only  *)
(* while the monitor is not running.                                       *)
(***************************************************************************)
StartStopped == ~is_running /\ start_monitoring

NextRestart == StartStopped \/ stop_monitoring \/ Poll \/ EventsEdit

SpecRestart == InitProbe /\ [][NextRestart]_vars

(***************************************************************************)
(* Scans that fill the profile cache while other programs write the        *)
(* profile files, between scans and inside a scan.                         *)
(***************************************************************************)
ScanDuringWrite ==
    \E n \in WrittenStems, c \in {DarkM2, Garbage} : scan_profiles_during_write(n, c)

NextFill == scan_profiles \/ EditProfile \/ ScanDuringWrite

SpecFill == InitScan /\ [][NextFill]_vars

(***************************************************************************)
(* force_scan between the loop and the batch update of a tick, while the   *)
(* watched file is written and the clock advances.                         *)
(***************************************************************************)
NextOverlap ==
    \/ AddFile \/ start_monitoring \/ force_scan \/ ScanPaths \/ UpdatePaths
    \/ MonitorEdit \/ ClockMonitor

SpecOverlap == InitMonitor /\ [][NextOverlap]_vars

(***************************************************************************)
(* Properties.                                                             *)
(***************************************************************************)
Names(ps) == {ps[i].name : i \in 1..Len(ps)}

LastSwitch == last.op = "switch"

Logged(op) == \E i \in 1..Len(last.log) : last.log[i] = op

ReplacesLive(op) == op \in {"rename tmp live", "rename restore_tmp live"}

RollbackFailed == "Profile switch failed and rollback failed"

BackupFailed == "Failed to create backup before switching"

\* The profile the last call named, when the store has it.
Named == profiles[CHOOSE i \in 1..Len(profiles) : profiles[i].name = last.name]

\* The status the named profile had against the live settings file as it was
\* when the last call started.
StatusBefore == get_detailed_profile_status(Named.content, last.pre)

\* C1: after a switch(name) that returns success, the live settings file
\* parses to a value equal to the parsed content of profile `name`.
C1_RoundTrip ==
    (LastSwitch /\ last.result.ok) =>
        /\ live.exists
        /\ from_str(live.content).ok
        /\ last.name \in Names(profiles)
        /\ from_str(live.content).val = from_str(Named.content).val

\* C2: the live settings file is replaced only after the backup of the same
\* call was created; when the backup fails the call returns an error and the
\* live settings file is not touched.
C2_BackupBeforeReplace ==
    LastSwitch =>
        /\ \A i \in 1..Len(last.log) :
              ReplacesLive(last.log[i]) =>
                  \E j \in 1..(i - 1) : last.log[j] = "copy live backup"
        /\ last.result.msg = BackupFailed =>
              /\ ~last.result.ok
              /\ \A i \in 1..Len(last.log) : ~ReplacesLive(last.log[i])
              /\ live.exists
              /\ live.content = last.pre.content

C2_Witness ==
    /\ LastSwitch
    /\ Logged("copy live backup")
    /\ Logged("rename tmp live")
    /\ last.result.ok

\* C3: an ordinary error returned after the backup was created leaves the
\* live settings file with the content it had before the call.
C3_RolledBackContent ==
    (/\ LastSwitch
     /\ ~last.result.ok
     /\ last.result.msg # RollbackFailed
     /\ Logged("copy live backup")) =>
        /\ live.exists = last.pre.exists
        /\ live.content = last.pre.content

C3_Witness ==
    /\ LastSwitch
    /\ last.result.msg = "Final file verification failed"
    /\ Logged("rename restore_tmp live")

\* The variants of AppError an ordinary failure of switch_profile returns:
\* ConfigError for the name, the profile and its content, FileSystemError
\* for the file operations.
OrdinaryVariants == {"ConfigError", "FileSystemError"}

\* C4: a switch whose restore failed returns an error of a kind no ordinary
\* switch failure returns.
C4_RollbackFailedDistinct ==
    (LastSwitch /\ last.result.msg = RollbackFailed) =>
        last.result.variant \notin OrdinaryVariants

\* C5: a switch to a name the store does not have returns the not-found
\* error (ConfigError, as for every rejected name) and changes no file.
C5_NotFoundNoEffect ==
    [][(last'.op = "switch" /\ last'.name \notin Names(profiles)) =>
          /\ ~last'.result.ok
          /\ last'.result.variant = "ConfigError"
          /\ last'.name # "" => last'.result.msg = "Profile not found"
          /\ last'.log = <<>>
          /\ UNCHANGED <<live, profileFiles, backups, tmpExists>>]_vars

C5_Witness ==
    /\ LastSwitch
    /\ last.name = "ghost"
    /\ profiles # <<>>
    /\ last.result.msg = "Profile not found"

\* C6: a switch to a profile that fully matches the live settings returns
\* success and performs no file operation.
C6_MatchingNoWrites ==
    (/\ LastSwitch
     /\ last.name \in Names(profiles)
     /\ StatusBefore = "FullMatch") =>
        /\ last.result.ok
        /\ last.log = <<>>

\* The errors of the validation steps of switch_profile.
ValidationErrors == {"Profile name cannot be empty", "Profile not found",
                     "Profile contains invalid JSON", "Invalid JSON content",
                     "Configuration must be a JSON object",
                     "Default settings file does not exist"}

\* C7: a switch that fails at a validation step has created no backup and
\* performed no file operation.
C7_ValidationNoEffect ==
    (LastSwitch /\ last.result.msg \in ValidationErrors) =>
        /\ ~Logged("copy live backup")
        /\ last.log = <<>>

\* C8: after a successful switch at most 5 backups exist, and the backup of
\* the call, the newest, is among them.
C8_AtMostFiveBackups ==
    (LastSwitch /\ last.result.ok) =>
        /\ Cardinality(backups) <= KeepBackups
        /\ Logged("copy live backup") =>
              \E ts \in backups : \A u \in backups : u <= ts

\* C9: for JSON objects A (profile) and B (live settings) the status is
\* FullMatch iff A = B, PartialMatch iff A # B and they agree on every
\* top-level field other than `model`, NoMatch otherwise.
C9_StatusOf ==
    stResult # "none" =>
        LET A == from_str(stProfile).val.fields
            B == from_str(live.content).val.fields
            AgreeBut(f) ==
                \A k \in ((DOMAIN A) \cup (DOMAIN B)) \ {f} :
                    k \in DOMAIN A /\ k \in DOMAIN B /\ A[k] = B[k]
        IN /\ stResult \in {"FullMatch", "PartialMatch", "NoMatch"}
           /\ stResult = "FullMatch" <=> A = B
           /\ stResult = "PartialMatch" <=> (A # B /\ AgreeBut("model"))
           /\ stResult = "NoMatch" <=> ~AgreeBut("model")

\* Two objects that differ only inside a nested object's `model`.
C9_Witness ==
    /\ stResult = "NoMatch"
    /\ LET A == from_str(stProfile).val.fields
           B == from_str(live.content).val.fields
       IN /\ DOMAIN A = {"theme"}
          /\ DOMAIN B = {"theme"}
          /\ is_object(A["theme"])
          /\ is_object(B["theme"])

\* C10: after a successful switch that wrote the live settings file no cache
\* holds content read before the write, the named profile is active and
\* FullMatch, and every profile with other parsed content is inactive.
C10_AfterSwitch ==
    (LastSwitch /\ last.result.ok /\ Logged("rename tmp live")) =>
        /\ profile_cache = EmptyCache
        /\ default_settings_cache.some =>
              /\ default_settings_cache.content = live.content
              /\ default_settings_cache.time >= live.mtime
        /\ Named.is_active
        /\ get_detailed_profile_status(Named.content, live) = "FullMatch"
        /\ \A i \in 1..Len(profiles) :
              from_str(profiles[i].content).val # from_str(Named.content).val =>
                  ~profiles[i].is_active

\* The example of the specification: `work` was PartialMatch before.
C10_Witness ==
    /\ LastSwitch
    /\ last.result.ok
    /\ Logged("rename tmp live")
    /\ last.name = "work"
    /\ StatusBefore = "PartialMatch"
    /\ default_settings_cache.some

\* The files of the directory a scan admits: the name matches
\* <name>.settings.json with a name of 1 to 255 characters, the file can be
\* read as text and the text is JSON.
Admitted(n) ==
    /\ profileFiles[n].exists
    /\ n # ""
    /\ len(n) <= MaxNameLen
    /\ profileFiles[n].content.kind \in {"object", "array"}

LastScan == last.op = "scan"

\* C11: a scan of a readable directory returns success with exactly the
\* profiles of the files whose name matches <name>.settings.json (name of 1
\* to 255 characters) and whose content loads and parses, in listing order;
\* a matching file that cannot be read or parsed is left out and nothing
\* else changes for the other files.
C11_ScanAdmits ==
    LastScan =>
        /\ last.result.ok
        /\ [i \in 1..Len(profiles) |-> profiles[i].name] = SelectSeq(DirOrder, Admitted)
        /\ \A i \in 1..Len(profiles) :
              /\ profiles[i].content = profileFiles[profiles[i].name].content
              /\ profiles[i].path = claude_dir \o profile_file_name(profiles[i].name)

\* A rescan after writes: one matching file is not text, one is not JSON,
\* the file after them in the listing is admitted.
C11_Witness ==
    /\ LastScan
    /\ profileFiles["home"].content = Garbage
    /\ profileFiles["list"].exists
    /\ profileFiles[LongName].exists
    /\ profileFiles["work"].content = DarkM2
    /\ now = MaxNowScan
    /\ Names(profiles) = {"list", "work"}

\* C12: every profile a scan admits has content that is a JSON object.
C12_AdmittedAreObjects ==
    LastScan =>
        \A i \in 1..Len(profiles) : is_object(from_str(profiles[i].content).val)

\* C13: the monitored paths are the path of the live settings file followed
\* by the path of every profile of the store, in the order of the list.
C13_MonitoredPaths ==
    LET files == get_monitored_files(profiles)
    IN /\ Len(files) = 1 + Len(profiles)
       /\ files[1] = claude_dir \o <<"settings.json">>
       /\ \A i \in 1..Len(profiles) :
             files[i + 1] = claude_dir \o profile_file_name(profiles[i].name)

C13_Witness ==
    /\ Len(profiles) = 2
    /\ get_monitored_files(profiles)[3] = claude_dir \o <<"work", ".settings.json">>

\* C14: once max_scan_errors ticks in a row have failed because a probe of a
\* watched file failed, the running flag is false and the task has ended.
C14_StopsAfterMaxErrors ==
    \A i \in 1..Len(tasks) :
        tasks[i].failed_ticks >= MaxScanErrors =>
            /\ ~is_running
            /\ ~tasks[i].alive

\* C15: after the k-th failed tick in a row, k below max_scan_errors, the
\* loop sleeps min(300, 30 * 2^(k-1)) seconds.
C15_BackoffDoubles ==
    \A i \in 1..Len(tasks) :
        (/\ mlast.op = "tick"
         /\ mlast.task = i
         /\ tasks[i].failed_ticks \in 1..(MaxScanErrors - 1)) =>
            tasks[i].backoff = Min(BackoffCap, BackoffStep * 2^(tasks[i].failed_ticks - 1))

\* A path add_file_to_monitor accepts: a regular file of at most 10 MiB.
Acceptable(f) == path_is_file(f) /\ f.size <= MaxFileSize

LastAdd == mlast.op = "add"

\* C16: the watch list never holds more than 50 paths; adding a new
\* acceptable path to a list of 50 removes the earliest path and its
\* fingerprint and keeps the other 49 in order, followed by the new path.
C16_WatchLimit ==
    [][/\ Len(monitored_files') <= MaxMonitoredFiles
       /\ (/\ mlast'.op = "add"
           /\ Len(monitored_files) = MaxMonitoredFiles
           /\ Acceptable(mfiles[mlast'.path])
           /\ ~Contains(monitored_files, mlast'.path)) =>
              /\ monitored_files' = Tail(monitored_files) \o <<mlast'.path>>
              /\ Head(monitored_files) \notin DOMAIN file_metadata'
              /\ \A q \in (DOMAIN file_metadata) \ {Head(monitored_files)} :
                    /\ q \in DOMAIN file_metadata'
                    /\ file_metadata'[q] = file_metadata[q]]_vars

\* Path 51 was added to the 50 paths 1..50, all with a fingerprint.
C16_Witness ==
    /\ LastAdd
    /\ mlast.path = MaxMonitoredFiles + 1
    /\ Len(monitored_files) = MaxMonitoredFiles
    /\ Head(monitored_files) = 2
    /\ 1 \notin DOMAIN file_metadata
    /\ 2 \in DOMAIN file_metadata

C18_AddedOnce ==
    LastAdd => Cardinality({i \in 1..Len(monitored_files) :
                               monitored_files[i] = mlast.path}) = 1

Reports(changes, p, t) == \E i \in 1..Len(changes) : changes[i] = Change(p, t)

\* C19: a scan, by the timer or by force_scan, of a watched file whose size
\* differs from the size of its cached fingerprint reports it as Modified.
C19_SizeChangeReported ==
    [][\A p \in DOMAIN mfiles :
          (/\ mlast' # mlast
           /\ mlast'.op \in {"tick", "force_scan"}
           /\ Contains(monitored_files, p)
           /\ p \in DOMAIN file_metadata
           /\ path_is_file(mfiles[p])
           /\ mfiles[p].size # file_metadata[p].size) =>
              Reports(mlast'.changes, p, "Modified")]_vars

AllTasksEnded == \A i \in 1..Len(tasks) : ~tasks[i].alive

\* C20: stop_monitoring clears the running flag and leaves the tasks as they
\* are; while the flag is false no task scans; and unless monitoring is
\* started again every task ends.
C20_StopEndsPolling ==
    /\ [][mlast'.op = "stop" => (~is_running' /\ tasks' = tasks)]_vars
    /\ [][~is_running => ~(mlast' # mlast /\ mlast'.op = "tick")]_vars
    /\ (~is_running ~> (is_running \/ AllTasksEnded))

\* A task that had scanned ended at its first tick after the stop.
C20_Witness ==
    /\ mlast.op = "exit"
    /\ ~is_running
    /\ tasks # <<>>
    /\ AllTasksEnded
    /\ 1 \in DOMAIN file_metadata

\* The interval a call that sets it is about: of the monitor or of the
\* settings service.
StoredInterval(op, monitor, settings) ==
    IF op = "set_monitor_interval" THEN monitor ELSE settings.monitor_interval_minutes

\* C21: a call that sets the poll interval, on the monitor or in the settings
\* service, succeeds exactly when the minutes are between 1 and 60, and a
\* call that returns an error leaves the stored interval, the persisted
\* settings and the running flag of the monitor as they were.
C21_IntervalRange ==
    [][slast' # slast =>
          /\ slast'.result.ok <=> slast'.minutes \in MinInterval..MaxInterval
          /\ ~slast'.result.ok =>
                /\ StoredInterval(slast'.op, monitor_interval_minutes', current_settings')
                       = StoredInterval(slast'.op, monitor_interval_minutes, current_settings)
                /\ settings_file'.saved = settings_file.saved
                /\ is_running' = is_running]_vars

\* A call of set_monitor_interval with valid minutes other than the interval of
\* a running monitor.
Restarts ==
    /\ slast' # slast
    /\ slast'.op = "set_monitor_interval"
    /\ slast'.minutes \in MinInterval..MaxInterval
    /\ slast'.minutes # monitor_interval_minutes
    /\ is_running

Readable(file) == file.exists /\ file.content.kind # "binary"

\* The text is JSON.
Parses(text) == text.kind \in {"object", "array"}

ContentOf(ps, name) == {ps[i].content : i \in Find(ps, name)}

\* C22: a status query returns Error, and none of FullMatch, PartialMatch and
\* NoMatch, exactly when the name has no profile, the live settings file
\* cannot be read, or the live content or the profile content is no JSON.
C22_StatusError ==
    /\ last.op = "status" =>
          /\ stResult \in {"Error", "FullMatch", "PartialMatch", "NoMatch"}
          /\ stResult = "Error" <=>
                \/ last.name \notin Names(profiles)
                \/ ~Readable(live)
                \/ ~Parses(live.content)
                \/ \E c \in ContentOf(profiles, last.name) : ~Parses(c)
    /\ last.op = "detailed_status" =>
          /\ stResult \in {"Error", "FullMatch", "PartialMatch", "NoMatch"}
          /\ stResult = "Error" <=>
                \/ ~Readable(live)
                \/ ~Parses(live.content)
                \/ ~Parses(stProfile)

\* A name without a profile was queried while the live settings file was
\* readable JSON.
C22_Witness ==
    /\ last.op = "status"
    /\ last.name = "ghost"
    /\ profiles # <<>>
    /\ Readable(live)
    /\ Parses(live.content)
    /\ stResult = "Error"

Position(op) == {i \in 1..Len(last.log) : last.log[i] = op}

Validated(ps, name) ==
    /\ name # ""
    /\ Find(ps, name) # {}
    /\ \A c \in ContentOf(ps, name) : from_str(c).ok /\ is_object(from_str(c).val)

C23_WitnessCorrupt ==
    /\ LastSwitch
    /\ ~last.result.ok
    /\ Logged("read tmp differs")
    /\ Logged("remove tmp")

\* The entry is within its time to live and the file is not newer than it
\* was when the entry was cached.
Fresh(cached_at, recorded, file, t) ==
    /\ t >= cached_at
    /\ t - cached_at < CacheTtl
    /\ file.exists
    /\ file.mtime <= recorded

\* C24: the live-settings slot and the profile cache serve the cached
\* content only when less than 60 seconds have passed since the entry was
\* cached and the modification time of the file is at most the one the file
\* had when the entry was cached; otherwise a readable file is read again and
\* the entry is replaced.
C24_CachesFresh ==
    /\ LET slot == default_settings_cache
           d == get_default_settings_cached(slot, live, now)
       IN IF slot.some /\ Fresh(slot.time, slot.modified, live, now)
          THEN d.ok /\ d.content = slot.content /\ d.cache = slot
          ELSE Readable(live) =>
                  /\ d.ok
                  /\ d.content = live.content
                  /\ d.cache = [some |-> TRUE, content |-> live.content, time |-> now,
                                modified |-> live.mtime]
    /\ \A n \in DirStems :
          LET path == claude_dir \o profile_file_name(n)
              file == profileFiles[n]
              c == get_file_content_cached(profile_cache, path, file, now)
          IN IF /\ path \in DOMAIN profile_cache
                /\ Fresh(profile_cache[path].last_updated,
                         profile_cache[path].metadata.modified_time, file, now)
             THEN c.ok /\ c.content = profile_cache[path].content /\ c.cache = profile_cache
             ELSE Readable(file) =>
                     /\ c.ok
                     /\ c.content = file.content
                     /\ c.cache[path] = [metadata |-> [modified_time |-> file.mtime],
                                         content |-> file.content, last_updated |-> now]

\* The fingerprint policy: modification time, then size, then the checksums
\* when both were computed.
Changed(cached, current) ==
    IF cached.modified_time # current.modified_time THEN TRUE
    ELSE IF cached.size # current.size THEN TRUE
    ELSE /\ cached.checksum # 0
         /\ current.checksum # 0
         /\ cached.checksum # current.checksum

\* The fingerprint a scan takes of a file.
Probed(op, f) ==
    IF op = "tick" THEN get_file_metadata_optimized(f, FALSE).metadata
    ELSE MonitorService_get_file_metadata(f).metadata

\* C25: a scan, by the timer or by force_scan, reports a watched file that
\* has a cached fingerprint as Modified exactly when the modification times
\* differ, or else the sizes differ, or else both checksums are non-zero and
\* differ.
C25_ChangePolicy ==
    [][\A p \in DOMAIN mfiles :
          (/\ mlast' # mlast
           /\ mlast'.op \in {"tick", "force_scan"}
           /\ Contains(monitored_files, p)
           /\ p \in DOMAIN file_metadata
           /\ path_is_file(mfiles[p])) =>
              (Reports(mlast'.changes, p, "Modified")
                  <=> Changed(file_metadata[p], Probed(mlast'.op, mfiles[p])))]_vars

\* The same for the scans of the timer alone.
C25_TickPolicy ==
    [][\A p \in DOMAIN mfiles :
          (/\ mlast' # mlast
           /\ mlast'.op = "tick"
           /\ Contains(monitored_files, p)
           /\ p \in DOMAIN file_metadata
           /\ path_is_file(mfiles[p])) =>
              (Reports(mlast'.changes, p, "Modified")
                  <=> Changed(file_metadata[p], Probed(mlast'.op, mfiles[p])))]_vars

\* The events of a scan for one path.
EventsFor(changes, p) == SelectSeq(changes, LAMBDA c : c.file_path = p)

\* The event prescribed for a path, given the cache and the file.
Prescribed(p, cache, f) ==
    IF ~path_exists(f)
    THEN IF p \in DOMAIN cache THEN <<Change(p, "Deleted")>> ELSE <<>>
    ELSE IF p \notin DOMAIN cache THEN <<Change(p, "Created")>>
    ELSE IF Changed(cache[p], Probed("tick", f)) THEN <<Change(p, "Modified")>>
    ELSE <<>>

\* A step is the scan of a timer tick.
TickStep == mlast' # mlast /\ mlast'.op = "tick"

C29_WitnessQuiet ==
    /\ mlast.op = "tick"
    /\ mlast.changes = <<>>
    /\ mlast.callback = <<>>
    /\ DOMAIN file_metadata = {1, 2}

\* C28: a tick probes the paths that are in the watch list when it runs: it
\* reports for each of them the event prescribed, a path added since
\* start_monitoring included, and it reports nothing for and caches no
\* fingerprint of a path that is not in the watch list.
C28_TickProbesWatchList ==
    [][TickStep =>
          \A p \in DOMAIN mfiles :
             /\ EventsFor(mlast'.changes, p) =
                    IF Contains(monitored_files, p)
                    THEN Prescribed(p, file_metadata, mfiles[p])
                    ELSE <<>>
             /\ (~Contains(monitored_files, p) /\ p \notin DOMAIN file_metadata) =>
                    p \notin DOMAIN file_metadata']_vars

C27_WitnessQuiet ==
    /\ mlast.op = "scan"
    /\ mlast.changes = <<>>
    /\ 1 \in DOMAIN file_metadata
    /\ file_metadata[1] = Probed("tick", mfiles[1])
    /\ mfiles[1].size = 3

\* C31: after an optimization pass of the fingerprint cache, by
\* force_optimize_cache or by stop_monitoring, every key of the cache is a
\* path of the watch list, whatever the size of the cache before the pass.
C31_PassPrunes ==
    mlast.op \in {"stop", "optimize"} =>
        \A p \in DOMAIN file_metadata : Contains(monitored_files, p)

\* The profiles without their flags.
Unflagged(ps) ==
    [i \in 1..Len(ps) |->
        [name |-> ps[i].name, path |-> ps[i].path, content |-> ps[i].content]]

\* C32: refresh_profile_status changes only the is_active flags: the names,
\* paths, contents and order of the profiles in memory are the same before
\* and after, also when profile files were written, added or removed since
\* the last scan.
C32_RefreshKeepsProfiles ==
    [][last'.op = "refresh" => Unflagged(profiles') = Unflagged(profiles)]_vars

\* A refresh that sets a flag while the file of the active profile was
\* rewritten, the file of another profile was removed and a new profile file
\* was added since the scan.
C32_Witness ==
    /\ last.op = "refresh"
    /\ \E i \in 1..Len(profiles) :
          /\ profiles[i].is_active
          /\ profileFiles[profiles[i].name].content # profiles[i].content
    /\ \E i \in 1..Len(profiles) : ~profileFiles[profiles[i].name].exists
    /\ \E n \in DirStems : Admitted(n) /\ n \notin Names(profiles)

\* C33: a scan updates the stored list all or nothing.  After a scan that
\* succeeds the stored list is the returned list and holds no profile whose
\* file was absent from the directory at the time of the scan; after a scan
\* that fails, the directory being missing, no directory or unreadable, the
\* stored list is what it was before the call.
C33_ScanAllOrNothing ==
    [][last'.op = "scan" =>
          IF last'.result.ok
          THEN /\ profiles' = last'.returned
               /\ \A i \in 1..Len(profiles') : profileFiles'[profiles'[i].name].exists
          ELSE profiles' = profiles]_vars

\* A scan fails on a store that holds profiles of an earlier scan, one of
\* them of a file removed since.
C33_Witness ==
    /\ LastScan
    /\ ~last.result.ok
    /\ \E i \in 1..Len(profiles) : ~profileFiles[profiles[i].name].exists
    /\ \E i \in 1..Len(profiles) : profileFiles[profiles[i].name].exists

\* C34: the store operations of the listeners and of the change callback
\* (switch, scan, refresh) each run with the mutex of the store held for the
\* whole operation, so that while a switch is between its first and its
\* last step no other thread is inside a scan, a refresh or a switch.
C34_StoreSerialized ==
    /\ \A h \in DOMAIN pc : Instr(h).op = "call" => held["config"] = h
    /\ \A h, g \in DOMAIN pc :
          Instr(h) = I("call", "switch") /\ Instr(g).op = "call" => g = h

\* A switch is running while the hover listener and the change callback
\* wait for the mutex of the store.
C34_Witness ==
    /\ Instr("profile_switch_requested") = I("call", "switch")
    /\ Instr("tray_icon_hover") = I("lock", "config")
    /\ Instr("callback") = I("lock", "config")

\* Thread h waits for a mutex that thread g holds.
WaitsFor(h, g) == Instr(h).op = "lock" /\ held[Instr(h).arg] = g

\* C36: no execution deadlocks on the mutexes of the store, the tray and
\* the translations: the code paths that hold two of them at a time take
\* them in one order.
C36_NoDeadlock ==
    ~ \E h, g \in DOMAIN pc : h # g /\ WaitsFor(h, g) /\ WaitsFor(g, h)

\* C35: the lock of the fingerprint cache is never held while a file is
\* probed or read: not in the scan of a tick, not in the batch update of
\* the tick, not in force_scan.
C35_NoProbeUnderLock ==
    \A h \in DOMAIN pc, m \in DOMAIN held :
        Instr(h).op = "probe" /\ m = "file_metadata" => held[m] # h

\* C37: at most one poll task of a monitor scans: after stop_monitoring
\* followed by start_monitoring the task of the earlier start ends at its
\* next tick, it does not scan and call its callback beside the new task.
C37_OneTaskScans ==
    mlast.op = "tick" => mlast.task = Len(tasks)

\* C38: right after scan_profiles or refresh_profile_status, no file having
\* changed since, a profile is active iff its detailed status is FullMatch:
\* the cached content of the live settings file used for the flags agrees
\* with the direct read of the status, whatever other programs wrote to the
\* live settings file before, within the time to live of the cache.
C38_ActiveIffFullMatch ==
    last.op \in {"scan", "refresh"} =>
        \A i \in 1..Len(profiles) :
            profiles[i].is_active <=>
                get_detailed_profile_status(profiles[i].content, live) = "FullMatch"

\* The entry of the profile cache for the file of profile n would be served.
Hit(n) ==
    LET path == claude_dir \o profile_file_name(n)
    IN /\ path \in DOMAIN profile_cache
       /\ is_cache_valid(profile_cache[path].last_updated, now)
       /\ profileFiles[n].exists
       /\ profileFiles[n].mtime <= profile_cache[path].metadata.modified_time

\* C39: a hit of the profile cache returns the content the file has on disk
\* at that moment, however writes of other programs, each advancing the
\* modification time of the file, interleave with the fills of the cache: a
\* write between the read of the content and the probe of the fingerprint
\* of a fill does not make later calls serve the content from before it.
C39_HitIsCurrent ==
    \A n \in DirStems :
        Hit(n) => profile_cache[claude_dir \o profile_file_name(n)].content
                      = profileFiles[n].content

\* C40: one modification of a watched file is reported by at most one
\* Modified event in total, also when force_scan runs between the loop of a
\* tick over the paths and the batch update of the tick: a force_scan that
\* follows the loop directly reports Modified for no path for which the
\* loop reported it.
C40_ModifiedOnce ==
    [][(mlast.op = "scan" /\ mlast' # mlast /\ mlast'.op = "force_scan") =>
          \A p \in DOMAIN mfiles :
              ~(Reports(mlast.changes, p, "Modified") /\
                Reports(mlast'.changes, p, "Modified"))]_vars

====
